---- MODULE Spec2Model ----
(***************************************************************************)
(* Usage metering of scrape2sheets-server: the atomic quota ledger          *)
(* (increment_usage_if_allowed, a plpgsql function run under a row lock),   *)
(* the user profile cache, and the POST /api/sheets/export request that     *)
(* composes them.                                                           *)
(*                                                                          *)
(* Eight specifications share the variables and the service operators:      *)
(*   SpecLedger   K callers invoke the RPC directly and nothing else writes *)
(*                the users table;                                          *)
(*   Spec         export requests run requireAuth and the export handler,   *)
(*                which calls the RPC, against the cache and the store;     *)
(*   SpecCache    the handlers that write the users row (settings, account  *)
(*                deletion, checkout, OAuth callback, scrape, the Stripe    *)
(*                webhook) run behind requireAuth against the cache;        *)
(*   SpecLimiter  requests pass the general and the scoped rate limiters    *)
(*                before requireAuth and the handler;                       *)
(*   SpecAuth     requests with every shape of Authorization header pass    *)
(*                requireAuth, next to the health probe and the shutdown;   *)
(*   SpecUsage    scrape and export requests, the Stripe events that reset  *)
(*                the usage and the provisioning of an account, in the      *)
(*                month after a rollover;                                   *)
(*   SpecLedgerFair  a few callers of the RPC under fair scheduling;        *)
(*   SpecWebhook  Stripe delivers every shape of event, an account signs    *)
(*                in, and a caller consumes quota through the RPC.          *)
(***************************************************************************)
EXTENDS Integers, Sequences, FiniteSets, TLC

\* ------------------------------------------------------------------ bounds
\* Concurrent direct callers of the RPC in SpecLedger.
NumCalls == 3
\* Initial usage of the observed account lies between (effective limit -
\* MaxHeadroom) and (effective limit + 1).
MaxHeadroom == 3
\* The same for the initial tables of Spec.
ReqHeadroom == 1
\* Requests the server accepts in SpecCache.
MaxRequests == 2
\* Requests the server accepts in SpecLimiter.
MaxArrivals == 2
\* A counter that starts in the middle of its window starts at
\* (max - RlHeadroom).
RlHeadroom == 1
\* Requests the server accepts in SpecAuth.
MaxAuthRequests == 3
\* Requests accepted in a behaviour of SpecUsage.
MaxUsageRequests == 3
\* Concurrent callers of the RPC in SpecLedgerFair (at most NumCalls).
FairCalls == 3
\* Requests delivered and RPC calls sent in a behaviour of SpecWebhook.
MaxDeliveries == 3

\* ------------------------------------------------------- program constants
\* v_limit := 5 for a past_due account
PAST_DUE_LIMIT == 5
FREE_LIMIT == 5
STARTER_LIMIT == 250
PRO_LIMIT == 999999

Plans == {"FREE", "STARTER", "PRO"}
Statuses == {"none", "active", "past_due", "canceled"}

PlanLimit(p) ==
  CASE p = "FREE" -> FREE_LIMIT
    [] p = "STARTER" -> STARTER_LIMIT
    [] OTHER -> PRO_LIMIT

\* Account ids: u1 and u2 may have a row, ghost never has one.
Ids == {"u1", "u2", "ghost"}
\* The ids whose holders send export requests in Spec: u2's row is there but
\* nobody acts on it.
ReqIds == {"u1", "ghost"}

\* Sessions are the callers of the RPC.  In SpecLedger every session is one
\* direct call.  In Spec the first two sessions are the request slots of the
\* server: each runs one export request at a time and takes the next request
\* when it has answered, so any number of requests is served, two at a time.
Sessions == 1 .. NumCalls
Calls == Sessions
Reqs == {1, 2}

\* --------------------------------------------------------------- the state
VARIABLES
  users,      \* the users table: id -> row (exists = FALSE: no row)
  users0,     \* the users table of the initial state (never changes)
  rowLock,    \* id -> the session whose transaction holds the row lock, or 0
  tx,         \* session -> the RPC's transaction: position and v_ variables
  rpcRes,     \* session -> what supabase.rpc resolved to
  pc,         \* session -> position of the export request
  reqUserId,  \* session -> req.userId
  reqUser,    \* session -> req.user (the hydrated profile)
  resp,       \* session -> the response sent
  cache,      \* id -> cached profile (exists = FALSE: absent)
  redisUp,    \* isRedisConnected()
  effects,    \* session -> what the request did: counters
  req,        \* session -> the HTTP request: path, peer address, headers
  rlStore,    \* the rate-limit keys of Redis: key -> hits in the window
  memStore,   \* process -> limiter -> the limiter's MemoryStore: key -> hits
  passed,     \* key -> requests the limiter let through in the window, and
              \* those of them it has taken back off the counter
  redisClient,\* redis-service's redisClient: TRUE when REDIS_URL was set
  stageLog,   \* session -> the pipeline stages the request has run
  arrivals,   \* the number of requests the server has accepted
  isShuttingDown \* server.js isShuttingDown: set by gracefulShutdown

ledgerVars == <<users, users0, rowLock, tx, rpcRes>>
limitVars == <<req, rlStore, memStore, passed, redisClient, arrivals,
               isShuttingDown>>
edgeVars == <<limitVars, stageLog>>
routeVars == <<pc, reqUserId, reqUser, resp, cache, redisUp, effects, edgeVars>>
vars == <<users, users0, rowLock, tx, rpcRes, pc, reqUserId, reqUser, resp,
          cache, redisUp, effects, req, rlStore, memStore, passed, redisClient,
          stageLog, arrivals, isShuttingDown>>

\* A users row.  billing_date is "none" (null), "now" (a date of the current
\* calendar month) or "past" (a date of an earlier month).
Row(u, l, p, s, g) ==
  [exists |-> TRUE, usage_this_month |-> u, plan_limits_scrapes |-> l,
   plan |-> p, subscription_status |-> s, google_provider_token |-> g,
   smart_formatting |-> TRUE, stripe_customer_id |-> FALSE,
   billing_date |-> "now"]

NoRow ==
  [exists |-> FALSE, usage_this_month |-> 0, plan_limits_scrapes |-> 0,
   plan |-> "FREE", subscription_status |-> "none",
   google_provider_token |-> FALSE, smart_formatting |-> TRUE,
   stripe_customer_id |-> FALSE, billing_date |-> "none"]

\* utils/usage.js getEffectiveLimit
getEffectiveLimit(user) ==
  IF user.subscription_status = "past_due" THEN 5 ELSE user.plan_limits_scrapes

\* ------------------------------------------------ increment_usage_if_allowed
NoTx ==
  [pc |-> "idle", id |-> "ghost", v_usage |-> 0, v_limit |-> 0,
   v_plan |-> "FREE", v_status |-> "none", locked |-> NoRow, written |-> NoRow]

NoRes ==
  [kind |-> "none", allowed |-> FALSE, new_usage |-> 0, effective_limit |-> 0,
   plan |-> "FREE", subscription_status |-> "none"]

RpcError == [NoRes EXCEPT !.kind = "error"]
RpcEmpty == [NoRes EXCEPT !.kind = "empty"]

\* RETURN QUERY SELECT a, u, l, p, s
ReturnQuery(a, u, l, p, s) ==
  [kind |-> "row", allowed |-> a, new_usage |-> u, effective_limit |-> l,
   plan |-> p, subscription_status |-> s]

\* IF NOT FOUND THEN RETURN QUERY SELECT false, 0, 0, 'FREE', 'none'
NotFoundRaises == [NoRes EXCEPT !.kind = "error"]
NotFoundResult == ReturnQuery(FALSE, 0, 0, "FREE", "none")

\* FOR UPDATE: the SELECT waits while another transaction holds the row lock.
RowLockFreeNoWait(id) == TRUE
RowLockFreeTable(id) == \A j \in Ids : rowLock[j] = 0
RowLockFree(id) == rowLock[id] = 0

\* IF v_status = 'past_due' THEN v_limit := 5
PastDueNoOverride(v_status, v_limit) == v_limit
PastDueOverride(v_status, v_limit) ==
  IF v_status = "past_due" THEN PAST_DUE_LIMIT ELSE v_limit

\* IF v_usage >= v_limit
LimitReachedOffByOne(v_usage, v_limit) == v_usage > v_limit
LimitReached(v_usage, v_limit) == v_usage >= v_limit

\* SET usage_this_month = usage_this_month + 1
IncrementedByTwo(row) ==
  [row EXCEPT !.usage_this_month = row.usage_this_month + 2]
Incremented(row) ==
  [row EXCEPT !.usage_this_month = row.usage_this_month + 1]

\* The row a transaction leaves behind when its UPDATE raises: the function
\* runs in one transaction, so the error rolls the statement back.
AbortKeepsWrite(before, written) == written
RowAfterAbort(before, written) == before

\* The caller sends the RPC for account id.
StartTx(s, id) ==
  /\ tx[s].pc = "idle"
  /\ rpcRes[s].kind = "none"
  /\ tx' = [tx EXCEPT ![s] = [NoTx EXCEPT !.pc = "select", !.id = id]]

\* SELECT ... INTO v_usage, v_limit, v_plan, v_status FROM users
\* WHERE id = p_user_id FOR UPDATE; IF NOT FOUND THEN ... RETURN.
TxSelectForUpdate(s) ==
  /\ tx[s].pc = "select"
  /\ LET id == tx[s].id
         row == users[id]
     IN IF ~row.exists
        THEN /\ tx' = [tx EXCEPT ![s].pc = "done"]
             /\ rpcRes' = [rpcRes EXCEPT ![s] = NotFoundResult]
             /\ UNCHANGED <<users, rowLock>>
        ELSE /\ RowLockFree(id)
             /\ rowLock' = [rowLock EXCEPT ![id] = s]
             /\ tx' = [tx EXCEPT ![s] =
                         [@ EXCEPT !.pc = "check",
                                   !.v_usage = row.usage_this_month,
                                   !.v_limit = row.plan_limits_scrapes,
                                   !.v_plan = row.plan,
                                   !.v_status = row.subscription_status,
                                   !.locked = row]]
             /\ UNCHANGED <<users, rpcRes>>
  /\ UNCHANGED <<users0>>

\* The past_due override and the limit check; a reached limit returns
\* (false, v_usage, v_limit, v_plan, v_status) and the transaction commits.
TxCheckLimit(s) ==
  /\ tx[s].pc = "check"
  /\ LET t == tx[s]
         lim == PastDueOverride(t.v_status, t.v_limit)
     IN IF LimitReached(t.v_usage, lim)
        THEN /\ tx' = [tx EXCEPT ![s] = [@ EXCEPT !.pc = "done", !.v_limit = lim]]
             /\ rpcRes' = [rpcRes EXCEPT ![s] =
                   ReturnQuery(FALSE, t.v_usage, lim, t.v_plan, t.v_status)]
             /\ rowLock' = [rowLock EXCEPT ![t.id] = IF @ = s THEN 0 ELSE @]
        ELSE /\ tx' = [tx EXCEPT ![s] = [@ EXCEPT !.pc = "update", !.v_limit = lim]]
             /\ UNCHANGED <<rpcRes, rowLock>>
  /\ UNCHANGED <<users, users0>>

\* UPDATE users SET usage_this_month = usage_this_month + 1 ...
\* RETURNING usage_this_month, plan_limits_scrapes, plan, subscription_status
\* INTO v_usage, v_limit, v_plan, v_status.  The new row version stays
\* private to the transaction until it commits.
TxUpdate(s) ==
  /\ tx[s].pc = "update"
  /\ LET new == Incremented(users[tx[s].id])
     IN tx' = [tx EXCEPT ![s] =
                 [@ EXCEPT !.pc = "return",
                           !.written = new,
                           !.v_usage = new.usage_this_month,
                           !.v_limit = new.plan_limits_scrapes,
                           !.v_plan = new.plan,
                           !.v_status = new.subscription_status]]
  /\ UNCHANGED <<users, users0, rowLock, rpcRes>>

TxUpdateFailsHoldsLock(s) ==
  /\ tx[s].pc = "update"
  /\ tx' = [tx EXCEPT ![s].pc = "failed"]
  /\ rpcRes' = [rpcRes EXCEPT ![s] = RpcError]
  /\ UNCHANGED <<users, users0, rowLock>>

\* The UPDATE raises (the write fails): the transaction aborts, the lock is
\* released and the RPC reports an error.
TxUpdateFails(s) ==
  /\ tx[s].pc = "update"
  /\ LET id == tx[s].id
     IN /\ users' = [users EXCEPT ![id] = RowAfterAbort(@, Incremented(@))]
        /\ rowLock' = [rowLock EXCEPT ![id] = IF @ = s THEN 0 ELSE @]
  /\ tx' = [tx EXCEPT ![s].pc = "failed"]
  /\ rpcRes' = [rpcRes EXCEPT ![s] = RpcError]
  /\ UNCHANGED <<users0>>

\* RETURN QUERY SELECT true, v_usage, v_limit, v_plan, v_status; the
\* transaction commits: the new row version becomes visible, the lock goes.
TxReturn(s) ==
  /\ tx[s].pc = "return"
  /\ LET t == tx[s]
     IN /\ users' = [users EXCEPT ![t.id] = t.written]
        /\ rowLock' = [rowLock EXCEPT ![t.id] = IF @ = s THEN 0 ELSE @]
        /\ rpcRes' = [rpcRes EXCEPT ![s] =
              ReturnQuery(TRUE, t.v_usage, t.v_limit, t.v_plan, t.v_status)]
  /\ tx' = [tx EXCEPT ![s].pc = "done"]
  /\ UNCHANGED <<users0>>

\* ------------------------------------------------------------ initial rows
\* Rows of the observed account: every plan with its nominal quota, every
\* subscription status, usage around the effective limit.
SeedUsages(e, h) == { u \in { e - d : d \in (0 - 1) .. h } : u >= 0 }

SeedRowsOf(p, s, g, h) ==
  { Row(u, PlanLimit(p), p, s, g) :
      u \in SeedUsages(getEffectiveLimit(Row(0, PlanLimit(p), p, s, g)), h) }

\* Accounts of SpecLedger: every plan paying and past_due, and the FREE plan
\* never subscribed and canceled.
LedgerAccounts ==
  { <<"FREE", "none">>, <<"FREE", "canceled">>, <<"FREE", "past_due">>,
    <<"STARTER", "active">>, <<"STARTER", "past_due">>,
    <<"PRO", "active">>, <<"PRO", "past_due">> }

SeedRows ==
  UNION { SeedRowsOf(t[1], t[2], TRUE, MaxHeadroom) : t \in LedgerAccounts }

\* Rows of the second account.
BystanderRows ==
  { Row(4, PRO_LIMIT, "PRO", "past_due", TRUE) }

InitialTables ==
  { [id \in Ids |-> CASE id = "u1" -> a [] id = "u2" -> b [] OTHER -> NoRow] :
      a \in SeedRows, b \in BystanderRows }

\* ------------------------------------------------------ rate-limit constants
\* max of generalLimiter, authLimiter, scrapeLimiter and sheetsLimiter
GENERAL_MAX == 200
AUTH_MAX == 20
SCRAPE_MAX == 30
SHEETS_MAX == 60

\* The limiters, by the prefix each hands to createStore.
Limiters == {"gen", "auth", "scrape", "sheets"}

Max(l) ==
  CASE l = "gen" -> GENERAL_MAX
    [] l = "auth" -> AUTH_MAX
    [] l = "scrape" -> SCRAPE_MAX
    [] OTHER -> SHEETS_MAX

\* Network addresses, and the server processes: request slot r is the
\* request that process r is serving.
Addrs == {"a", "b"}
Procs == Reqs

\* An HTTP request: the mount point of its path, the peer address (req.ip),
\* the entries of its x-forwarded-for header (none: no header) and the
\* principal its bearer token resolves to ("none": no valid credential).
Request(path, ip, xff, cred) ==
  [path |-> path, ip |-> ip, xff |-> xff, cred |-> cred]
NoReq == Request("sheets", "a", <<>>, "none")

\* The identities a limiter key can name, and the keys of a store: the
\* store's prefix and the key the limiter's key generator returned.
KeyIds ==
  { <<kind, a>> : kind \in {"ip", "raw"}, a \in Addrs } \cup { <<"user", "u1">> }
RLKeys == Limiters \X KeyIds

NoHits == [k \in RLKeys |-> 0]
Passed(through, exempt) == [through |-> through, exempt |-> exempt]

InitEdge ==
  /\ req = [s \in Sessions |-> NoReq]
  /\ rlStore = NoHits
  /\ memStore = [p \in Procs |-> NoHits]
  /\ passed = [k \in RLKeys |-> Passed(0, 0)]
  /\ redisClient = TRUE
  /\ stageLog = [s \in Sessions |-> <<>>]
  /\ arrivals = 0
  /\ isShuttingDown = FALSE

NoEffects ==
  [rpcCalls |-> 0, invalidations |-> 0, createCalls |-> 0, activities |-> 0,
   writes |-> 0, dirty |-> FALSE, cacheErrors |-> 0]

NoResp == [status |-> 0, current |-> 0, limit |-> 0, hasUsage |-> FALSE]

InitRoute(start) ==
  /\ pc = [s \in Sessions |-> start]
  /\ reqUserId = [s \in Sessions |-> "ghost"]
  /\ reqUser = [s \in Sessions |-> NoRow]
  /\ resp = [s \in Sessions |-> NoResp]
  /\ effects = [s \in Sessions |-> NoEffects]

InitStore ==
  /\ users \in InitialTables
  /\ users0 = users
  /\ rowLock = [id \in Ids |-> 0]
  /\ tx = [s \in Sessions |-> NoTx]
  /\ rpcRes = [s \in Sessions |-> NoRes]

\* ---------------------------------------------------------------- SpecLedger
\* K callers invoke the RPC directly; nothing else writes the users table.
InitLedger ==
  /\ InitStore
  /\ InitRoute("off")
  /\ InitEdge
  /\ cache = [id \in Ids |-> NoRow]
  /\ redisUp = TRUE

\* supabase.rpc('increment_usage_if_allowed', { p_user_id: id })
LedgerCall(c, id) ==
  /\ c \in Calls
  /\ pc[c] = "off"
  /\ StartTx(c, id)
  /\ UNCHANGED <<users, users0, rowLock, rpcRes>>

NextLedger ==
  \/ \E c \in Calls, id \in Ids : LedgerCall(c, id) /\ UNCHANGED routeVars
  \/ \E c \in Calls : TxSelectForUpdate(c) /\ UNCHANGED routeVars
  \/ \E c \in Calls : TxCheckLimit(c) /\ UNCHANGED routeVars
  \/ \E c \in Calls : TxUpdate(c) /\ UNCHANGED routeVars
  \/ \E c \in Calls : TxUpdateFails(c) /\ UNCHANGED routeVars
  \/ \E c \in Calls : TxReturn(c) /\ UNCHANGED routeVars

SpecLedger == InitLedger /\ [][NextLedger]_vars

\* --------------------------------------------------------- SpecLedgerFair
\* Concurrent callers, on two accounts and on an id without a row, under fair
\* scheduling: the database runs every transaction that can take a step, and
\* a waiter for the row lock goes on when the lock is free.
FairCallers == 1 .. FairCalls
FairAccounts == { Row(4, FREE_LIMIT, "FREE", "none", TRUE) }

InitFair ==
  /\ users \in { [id \in Ids |-> CASE id = "u1" -> a [] id = "u2" -> b [] OTHER -> NoRow] :
                   a \in FairAccounts, b \in BystanderRows }
  /\ users0 = users
  /\ rowLock = [id \in Ids |-> 0]
  /\ tx = [s \in Sessions |-> NoTx]
  /\ rpcRes = [s \in Sessions |-> NoRes]
  /\ InitRoute("off")
  /\ InitEdge
  /\ cache = [id \in Ids |-> NoRow]
  /\ redisUp = TRUE

CallStep(c) ==
  /\ \/ TxSelectForUpdate(c)
     \/ TxCheckLimit(c)
     \/ TxUpdate(c)
     \/ TxUpdateFails(c)
     \/ TxReturn(c)
  /\ UNCHANGED routeVars

NextFair ==
  \/ \E c \in FairCallers, id \in Ids : LedgerCall(c, id) /\ UNCHANGED routeVars
  \/ \E c \in FairCallers : CallStep(c)

SpecLedgerFair ==
  InitFair /\ [][NextFair]_vars /\ \A c \in FairCallers : WF_vars(CallStep(c))

\* -------------------------------------------------------- user-cache-service
\* getCachedUser: null when Redis is not connected, when the key is absent
\* and when the GET raises (cmdOk = FALSE); the parsed entry otherwise.
getCachedUserWhileDown(id, cmdOk) ==
  IF cmdOk /\ cache[id].exists THEN cache[id] ELSE NoRow
getCachedUser(id, cmdOk) ==
  IF redisUp /\ cmdOk /\ cache[id].exists THEN cache[id] ELSE NoRow

\* setCachedUser: SET with EX CACHE_TTL; a no-op when Redis is not connected
\* or the SET raises.
setCachedUserElsewhere(id, userData, cmdOk) ==
  IF redisUp /\ cmdOk THEN [cache EXCEPT !["u2"] = userData] ELSE cache
setCachedUser(id, userData, cmdOk) ==
  IF redisUp /\ cmdOk THEN [cache EXCEPT ![id] = userData] ELSE cache

\* invalidateUserCache: DEL; a no-op when Redis is not connected or the DEL
\* raises.
invalidateUserCacheFlips(id, cmdOk) ==
  IF redisUp /\ cmdOk
  THEN [cache EXCEPT ![id] = IF @.exists THEN NoRow ELSE users[id]]
  ELSE cache
invalidateUserCache(id, cmdOk) ==
  IF redisUp /\ cmdOk THEN [cache EXCEPT ![id] = NoRow] ELSE cache

\* ------------------------------------------------------------- requireAuth
Respond(r, status) ==
  /\ resp' = [resp EXCEPT ![r] = [NoResp EXCEPT !.status = status]]
  /\ pc' = [pc EXCEPT ![r] = "done"]

\* No header, no Bearer prefix, empty token, rejected token, no user: 401.
AuthReject(r) ==
  /\ pc[r] = "new"
  /\ Respond(r, 401)
  /\ UNCHANGED <<reqUserId, reqUser, cache, redisUp, effects>>
  /\ UNCHANGED <<ledgerVars, edgeVars>>

\* supabase.auth.getUser(token) resolves to the user id; then getCachedUser.
AuthGetCached(r, id, cmdOk) ==
  /\ pc[r] = "new"
  /\ reqUserId' = [reqUserId EXCEPT ![r] = id]
  /\ LET fullUser == getCachedUser(id, cmdOk)
     IN /\ reqUser' = [reqUser EXCEPT ![r] = fullUser]
        /\ pc' = [pc EXCEPT ![r] = IF fullUser.exists THEN "handler" ELSE "auth_db"]
        /\ stageLog' = [stageLog EXCEPT ![r] =
                          IF fullUser.exists THEN @ \o <<"verify", "hydrate">>
                                             ELSE Append(@, "verify")]
  /\ UNCHANGED <<resp, cache, redisUp, effects>>
  /\ UNCHANGED <<ledgerVars, limitVars>>

\* Cache miss: select * from users where id = authUser.id, single().
AuthDbRead(r, dbOk) ==
  /\ pc[r] = "auth_db"
  /\ LET dbUser == users[reqUserId[r]]
     IN IF ~dbOk \/ ~dbUser.exists
        THEN /\ Respond(r, 404)
             /\ UNCHANGED <<reqUser, stageLog>>
        ELSE /\ reqUser' = [reqUser EXCEPT ![r] = dbUser]
             /\ pc' = [pc EXCEPT ![r] = "auth_setcache"]
             /\ stageLog' = [stageLog EXCEPT ![r] = Append(@, "hydrate")]
             /\ UNCHANGED resp
  /\ UNCHANGED <<reqUserId, cache, redisUp, effects>>
  /\ UNCHANGED <<ledgerVars, limitVars>>

\* setCachedUser(authUser.id, fullUser); req.user = fullUser; next().
AuthSetCache(r, cmdOk) ==
  /\ pc[r] = "auth_setcache"
  /\ cache' = setCachedUser(reqUserId[r], reqUser[r], cmdOk)
  /\ pc' = [pc EXCEPT ![r] = "handler"]
  /\ UNCHANGED <<reqUserId, reqUser, resp, redisUp, effects>>
  /\ UNCHANGED <<ledgerVars, edgeVars>>

\* ------------------------------------------------------- POST /sheets/export
\* The response to a thrown error, by its message (the handler's catch).
ErrorKinds == {"expired", "permission", "ratelimit", "other"}
ErrorStatus(kind) ==
  CASE kind = "expired" -> 401
    [] kind = "permission" -> 403
    [] kind = "ratelimit" -> 429
    [] OTHER -> 500

\* exportSchema.safeParse fails: 400.
ExportInvalidBody(r) ==
  /\ pc[r] = "handler"
  /\ Respond(r, 400)
  /\ UNCHANGED <<reqUserId, reqUser, cache, redisUp, effects>>
  /\ UNCHANGED <<ledgerVars, edgeVars>>

\* supabase.rpc('increment_usage_if_allowed', { p_user_id: req.userId })
ExportCallRpc(r) ==
  /\ pc[r] = "handler"
  /\ StartTx(r, reqUserId[r])
  /\ pc' = [pc EXCEPT ![r] = "await_rpc"]
  /\ effects' = [effects EXCEPT ![r].rpcCalls = @ + 1]
  /\ UNCHANGED <<reqUserId, reqUser, resp, cache, redisUp>>
  /\ UNCHANGED <<users, users0, rowLock, rpcRes, edgeVars>>

\* The call does not reach the function: the client resolves to an error
\* (rpcError) or to no rows (data null or empty).
ExportRpcUnreached(r, res) ==
  /\ pc[r] = "handler"
  /\ tx[r].pc = "idle" /\ rpcRes[r].kind = "none"
  /\ rpcRes' = [rpcRes EXCEPT ![r] = res]
  /\ pc' = [pc EXCEPT ![r] = "await_rpc"]
  /\ effects' = [effects EXCEPT ![r].rpcCalls = @ + 1]
  /\ UNCHANGED <<reqUserId, reqUser, resp, cache, redisUp>>
  /\ UNCHANGED <<users, users0, rowLock, tx, edgeVars>>

\* The usage object of a response: { current: new_usage, limit: effective_limit }
UsageResponseSwapped(status, res) ==
  [status |-> status, current |-> res.effective_limit, limit |-> res.new_usage,
   hasUsage |-> TRUE]
UsageResponse(status, res) ==
  [status |-> status, current |-> res.new_usage, limit |-> res.effective_limit,
   hasUsage |-> TRUE]

\* The response to a failed RPC: res.status(500).json({ success, error }).
RpcFailedAsDenied(res) == UsageResponse(403, res)
RpcFailedResponse(res) == [NoResp EXCEPT !.status = 500]

\* if (rpcError) 500; if (!usageResult || usageResult.length === 0) 500.
ExportRpcFailed(r) ==
  /\ pc[r] = "await_rpc"
  /\ rpcRes[r].kind \in {"error", "empty"}
  /\ resp' = [resp EXCEPT ![r] = RpcFailedResponse(rpcRes[r])]
  /\ pc' = [pc EXCEPT ![r] = "done"]
  /\ UNCHANGED <<reqUserId, reqUser, cache, redisUp, effects>>
  /\ UNCHANGED <<ledgerVars, edgeVars>>

\* if (!allowed) 403 with usage.
ExportDenied(r) ==
  /\ pc[r] = "await_rpc"
  /\ rpcRes[r].kind = "row" /\ ~rpcRes[r].allowed
  /\ resp' = [resp EXCEPT ![r] = UsageResponse(403, rpcRes[r])]
  /\ pc' = [pc EXCEPT ![r] = "done"]
  /\ UNCHANGED <<reqUserId, reqUser, cache, redisUp, effects>>
  /\ UNCHANGED <<ledgerVars, edgeVars>>

\* Where the handler goes once the RPC allowed the request.
AfterAllowedSkipsInvalidate == "token"
AfterAllowed == "invalidate"

ExportAllowed(r) ==
  /\ pc[r] = "await_rpc"
  /\ rpcRes[r].kind = "row" /\ rpcRes[r].allowed
  /\ pc' = [pc EXCEPT ![r] = AfterAllowed]
  /\ UNCHANGED <<reqUserId, reqUser, resp, cache, redisUp, effects>>
  /\ UNCHANGED <<ledgerVars, edgeVars>>

\* await invalidateUserCache(req.userId)
ExportInvalidate(r, cmdOk) ==
  /\ pc[r] = "invalidate"
  /\ cache' = invalidateUserCache(reqUserId[r], cmdOk)
  /\ effects' = [effects EXCEPT ![r].invalidations = @ + 1]
  /\ pc' = [pc EXCEPT ![r] = "token"]
  /\ UNCHANGED <<reqUserId, reqUser, resp, redisUp>>
  /\ UNCHANGED <<ledgerVars, edgeVars>>

\* const googleToken = req.user.google_provider_token; 401 when missing;
\* otherwise generateSheetName, which falls back to a name on any error.
ExportToken(r) ==
  /\ pc[r] = "token"
  /\ IF ~reqUser[r].google_provider_token
     THEN /\ Respond(r, 401)
     ELSE /\ pc' = [pc EXCEPT ![r] = "create"]
          /\ UNCHANGED resp
  /\ UNCHANGED <<reqUserId, reqUser, cache, redisUp, effects>>
  /\ UNCHANGED <<ledgerVars, edgeVars>>

\* createSpreadsheet(activeToken, sheetName, data, smartFormatting): it
\* succeeds, or throws; an 'Invalid or expired access token' error on the
\* first attempt leads to refreshGoogleToken, any other to the catch.
ExportCreate(r, outcome) ==
  /\ pc[r] \in {"create", "create_retry"}
  /\ effects' = [effects EXCEPT ![r].createCalls = @ + 1]
  /\ IF outcome = "ok"
     THEN /\ pc' = [pc EXCEPT ![r] = "activity"]
          /\ UNCHANGED resp
     ELSE IF outcome = "expired" /\ pc[r] = "create"
     THEN /\ pc' = [pc EXCEPT ![r] = "refresh"]
          /\ UNCHANGED resp
     ELSE /\ Respond(r, ErrorStatus(outcome))
  /\ UNCHANGED <<reqUserId, reqUser, cache, redisUp>>
  /\ UNCHANGED <<ledgerVars, edgeVars>>

\* update({ google_provider_token, updated_at }).eq('id', userId): the
\* row after refreshGoogleToken's write; user is req.user.
RefreshWriteProfile(row, user) == [user EXCEPT !.google_provider_token = TRUE]
RefreshWrite(row, user) == [row EXCEPT !.google_provider_token = TRUE]

\* refreshGoogleToken: reads the refresh token, asks Google for an access
\* token and stores it in the users row; a missing row or refresh token and
\* a failed exchange throw an error whose message names the token: 401.
ExportRefresh(r, ok) ==
  /\ pc[r] = "refresh"
  /\ LET id == reqUserId[r]
     IN IF ok /\ users[id].exists
        THEN /\ rowLock[id] = 0
             /\ users' = [users EXCEPT ![id] = RefreshWrite(@, reqUser[r])]
             /\ pc' = [pc EXCEPT ![r] = "refresh_invalidate"]
             /\ UNCHANGED resp
        ELSE /\ Respond(r, 401)
             /\ UNCHANGED users
  /\ UNCHANGED <<reqUserId, reqUser, cache, redisUp, effects>>
  /\ UNCHANGED <<users0, rowLock, tx, rpcRes, edgeVars>>

\* refreshGoogleToken: await invalidateUserCache(userId); then the second
\* createSpreadsheet.
ExportRefreshInvalidate(r, cmdOk) ==
  /\ pc[r] = "refresh_invalidate"
  /\ cache' = invalidateUserCache(reqUserId[r], cmdOk)
  /\ effects' = [effects EXCEPT ![r].invalidations = @ + 1]
  /\ pc' = [pc EXCEPT ![r] = "create_retry"]
  /\ UNCHANGED <<reqUserId, reqUser, resp, redisUp>>
  /\ UNCHANGED <<ledgerVars, edgeVars>>

\* insert into activities (a failure is logged and ignored), then the 200
\* response with usage { current: new_usage, limit: effective_limit }.
ExportActivity(r, insertOk) ==
  /\ pc[r] = "activity"
  /\ effects' = [effects EXCEPT ![r].activities = @ + (IF insertOk THEN 1 ELSE 0)]
  /\ resp' = [resp EXCEPT ![r] = UsageResponse(200, rpcRes[r])]
  /\ pc' = [pc EXCEPT ![r] = "done"]
  /\ UNCHANGED <<reqUserId, reqUser, cache, redisUp>>
  /\ UNCHANGED <<ledgerVars, edgeVars>>

\* The response is on the wire: the slot takes the next request.
RequestEnds(r) ==
  /\ pc[r] = "done"
  /\ pc' = [pc EXCEPT ![r] = "new"]
  /\ reqUserId' = [reqUserId EXCEPT ![r] = "ghost"]
  /\ reqUser' = [reqUser EXCEPT ![r] = NoRow]
  /\ resp' = [resp EXCEPT ![r] = NoResp]
  /\ effects' = [effects EXCEPT ![r] = NoEffects]
  /\ tx' = [tx EXCEPT ![r] = NoTx]
  /\ rpcRes' = [rpcRes EXCEPT ![r] = NoRes]
  /\ stageLog' = [stageLog EXCEPT ![r] = <<>>]
  /\ UNCHANGED <<users, users0, rowLock, cache, redisUp, limitVars>>

\* ------------------------------------------------------------ the environment
\* The Redis connection drops or comes back (redisClient.isOpen).
RedisToggle ==
  /\ redisClient
  /\ redisUp' = ~redisUp
  /\ UNCHANGED <<pc, reqUserId, reqUser, resp, cache, effects>>
  /\ UNCHANGED <<ledgerVars, edgeVars>>

\* A cached profile reaches its TTL (EX CACHE_TTL).
CacheExpire(id) ==
  /\ cache[id].exists
  /\ cache' = [cache EXCEPT ![id] = NoRow]
  /\ UNCHANGED <<pc, reqUserId, reqUser, resp, redisUp, effects>>
  /\ UNCHANGED <<ledgerVars, edgeVars>>

\* ------------------------------------------------- handlers that write users
\* What a request records about its writes: a durable write of the users row
\* makes the request dirty, a call of invalidateUserCache makes it clean; a
\* DEL that raised is logged ('[UserCache] Invalidate error').
Wrote(r) ==
  effects' = [effects EXCEPT ![r].writes = @ + 1, ![r].dirty = TRUE]
CalledInvalidate(r, cmdOk) ==
  effects' = [effects EXCEPT ![r].invalidations = @ + 1, ![r].dirty = FALSE,
                             ![r].cacheErrors =
                               IF redisUp /\ ~cmdOk THEN @ + 1 ELSE @]

\* PATCH /api/user/settings: update({ updated_at, smart_formatting })
\* .eq('id', req.userId).select().single(); an error (no row among them)
\* answers 500.
SettingsUpdate(r, smart_formatting, dbOk) ==
  /\ pc[r] = "handler"
  /\ LET id == reqUserId[r]
     IN IF dbOk /\ users[id].exists
        THEN /\ rowLock[id] = 0
             /\ users' = [users EXCEPT ![id].smart_formatting = smart_formatting]
             /\ Wrote(r)
             /\ pc' = [pc EXCEPT ![r] = "settings_invalidate"]
             /\ UNCHANGED resp
        ELSE /\ Respond(r, 500)
             /\ UNCHANGED <<users, effects>>
  /\ UNCHANGED <<reqUserId, reqUser, cache, redisUp>>
  /\ UNCHANGED <<users0, rowLock, tx, rpcRes, edgeVars>>

\* await invalidateUserCache(req.userId); res.json({ success: true, ... })
SettingsInvalidate(r, cmdOk) ==
  /\ pc[r] = "settings_invalidate"
  /\ cache' = invalidateUserCache(reqUserId[r], cmdOk)
  /\ CalledInvalidate(r, cmdOk)
  /\ Respond(r, 200)
  /\ UNCHANGED <<reqUserId, reqUser, redisUp>>
  /\ UNCHANGED <<ledgerVars, edgeVars>>

\* DELETE /api/user/delete-account: delete the activities, then the users
\* row; an error of either answers 500.
DeleteOutcomes == {"ok", "activities_error", "user_error"}
DeleteUserRow(r, outcome) ==
  /\ pc[r] = "handler"
  /\ LET id == reqUserId[r]
     IN IF outcome = "ok"
        THEN /\ rowLock[id] = 0
             /\ users' = [users EXCEPT ![id] = NoRow]
             /\ Wrote(r)
             /\ pc' = [pc EXCEPT ![r] = "delete_auth"]
             /\ UNCHANGED resp
        ELSE /\ Respond(r, 500)
             /\ UNCHANGED <<users, effects>>
  /\ UNCHANGED <<reqUserId, reqUser, cache, redisUp>>
  /\ UNCHANGED <<users0, rowLock, tx, rpcRes, edgeVars>>

\* supabase.auth.admin.deleteUser(userId): its error answers 500; otherwise
\* await invalidateUserCache(userId) and the 200 response.
DeleteAuthUser(r, authOk, cmdOk) ==
  /\ pc[r] = "delete_auth"
  /\ IF authOk
     THEN /\ cache' = invalidateUserCache(reqUserId[r], cmdOk)
          /\ CalledInvalidate(r, cmdOk)
          /\ Respond(r, 200)
     ELSE /\ Respond(r, 500)
          /\ UNCHANGED <<cache, effects>>
  /\ UNCHANGED <<reqUserId, reqUser, redisUp>>
  /\ UNCHANGED <<ledgerVars, edgeVars>>

\* POST /api/billing/checkout up to the checkout session: a rejected body or
\* configuration (400, 503); the customer id of req.user is kept when Stripe
\* knows it; otherwise a customer is created and its id stored with
\* update({ stripe_customer_id }).eq('id', req.userId); a Stripe failure is
\* caught (500).
CheckoutOutcomes == {"rejected", "known", "created", "stripe_error"}
CheckoutCustomer(r, outcome) ==
  /\ pc[r] = "handler"
  /\ outcome = "known" => reqUser[r].stripe_customer_id
  /\ LET id == reqUserId[r]
     IN CASE outcome = "rejected" ->
               /\ Respond(r, 400)
               /\ UNCHANGED <<users, effects>>
          [] outcome = "stripe_error" ->
               /\ Respond(r, 500)
               /\ UNCHANGED <<users, effects>>
          [] outcome = "known" ->
               /\ pc' = [pc EXCEPT ![r] = "checkout_session"]
               /\ UNCHANGED <<users, effects, resp>>
          [] OTHER ->
               /\ rowLock[id] = 0
               /\ users' = [users EXCEPT ![id] =
                              IF @.exists THEN [@ EXCEPT !.stripe_customer_id = TRUE]
                                          ELSE @]
               /\ Wrote(r)
               /\ pc' = [pc EXCEPT ![r] = "checkout_session"]
               /\ UNCHANGED resp
  /\ UNCHANGED <<reqUserId, reqUser, cache, redisUp>>
  /\ UNCHANGED <<users0, rowLock, tx, rpcRes, edgeVars>>

\* stripe.checkout.sessions.create: the url is answered (200); a missing url
\* and a thrown error answer 500.
CheckoutSession(r, ok) ==
  /\ pc[r] = "checkout_session"
  /\ Respond(r, IF ok THEN 200 ELSE 500)
  /\ UNCHANGED <<reqUserId, reqUser, cache, redisUp, effects>>
  /\ UNCHANGED <<ledgerVars, edgeVars>>

\* The row POST /api/auth/callback inserts for a new user.
NewUserRowUsed ==
  [Row(1, FREE_LIMIT, "FREE", "none", TRUE) EXCEPT !.billing_date = "none"]
NewUserRow ==
  [Row(0, FREE_LIMIT, "FREE", "none", TRUE) EXCEPT !.billing_date = "none"]

\* POST /api/auth/callback (no requireAuth): a missing code or a failed
\* exchange answers 400, an unknown user 401; a new user's row is inserted, an
\* existing user's row gets the fresh Google tokens; the profile is answered.
CallbackOutcomes == {"bad_request", "unauthenticated", "signed_in"}
AuthCallback(r, id, outcome) ==
  /\ pc[r] = "new"
  /\ CASE outcome = "bad_request" ->
            /\ Respond(r, 400)
            /\ UNCHANGED <<users, effects, reqUserId>>
       [] outcome = "unauthenticated" ->
            /\ Respond(r, 401)
            /\ UNCHANGED <<users, effects, reqUserId>>
       [] OTHER ->
            /\ rowLock[id] = 0
            /\ users' = [users EXCEPT ![id] =
                           IF @.exists THEN [@ EXCEPT !.google_provider_token = TRUE]
                                       ELSE NewUserRow]
            /\ reqUserId' = [reqUserId EXCEPT ![r] = id]
            /\ Wrote(r)
            /\ Respond(r, 200)
  /\ UNCHANGED <<reqUser, cache, redisUp>>
  /\ UNCHANGED <<users0, rowLock, tx, rpcRes, edgeVars>>

\* resetMonthlyUsageIfNeeded: user.billing_date is set and monthsSince >= 1
ResetDue(user) == user.billing_date = "past"

\* What resetMonthlyUsageIfNeeded writes: update({ usage_this_month: 0,
\* billing_date: now, updated_at }) and the same to the user object.
ResetRow(row) == [row EXCEPT !.usage_this_month = 0, !.billing_date = "now"]

\* POST /api/scrape, first part: a rejected body answers 400; then
\* resetMonthlyUsageIfNeeded(supabase, user, req.userId) with user =
\* req.user: when the reset is due by req.user's billing_date the row of
\* the table is reset, unless the update fails (its error is not looked at),
\* and req.user is reset.
ScrapeReset(r, bodyOk, dbOk) ==
  /\ pc[r] = "handler"
  /\ LET id == reqUserId[r]
     IN IF ~bodyOk
        THEN /\ Respond(r, 400)
             /\ UNCHANGED <<users, reqUser, effects>>
        ELSE IF ResetDue(reqUser[r])
        THEN /\ IF dbOk /\ users[id].exists
                THEN /\ rowLock[id] = 0
                     /\ users' = [users EXCEPT ![id] = ResetRow(@)]
                     /\ Wrote(r)
                ELSE UNCHANGED <<users, effects>>
             /\ reqUser' = [reqUser EXCEPT ![r] = ResetRow(@)]
             /\ pc' = [pc EXCEPT ![r] = "scrape_check"]
             /\ UNCHANGED resp
        ELSE /\ pc' = [pc EXCEPT ![r] = "scrape_check"]
             /\ UNCHANGED <<users, reqUser, effects, resp>>
  /\ UNCHANGED <<reqUserId, cache, redisUp>>
  /\ UNCHANGED <<users0, rowLock, tx, rpcRes, edgeVars>>

\* POST /api/scrape, second part: 403 with the usage of req.user when
\* req.user's usage has reached its effective limit; otherwise the
\* extraction, answered with the data (200) or failing (next(err): 500).
ScrapeExtract(r, ok) ==
  /\ pc[r] = "scrape_check"
  /\ LET user == reqUser[r]
         effectiveLimit == getEffectiveLimit(user)
         usage == [NoResp EXCEPT !.current = user.usage_this_month,
                                 !.limit = effectiveLimit, !.hasUsage = TRUE]
     IN /\ resp' = [resp EXCEPT ![r] =
                      IF user.usage_this_month >= effectiveLimit
                      THEN [usage EXCEPT !.status = 403]
                      ELSE IF ok THEN [usage EXCEPT !.status = 200]
                      ELSE [NoResp EXCEPT !.status = 500]]
        /\ pc' = [pc EXCEPT ![r] = "done"]
  /\ UNCHANGED <<reqUserId, reqUser, cache, redisUp, effects>>
  /\ UNCHANGED <<ledgerVars, edgeVars>>

\* ---------------------------------------------------- POST /api/billing/webhook
\* A verified Stripe event: its type, whether it names an account (the user
\* id of the metadata, or a subscription id stored in a users row), the plan
\* of its price ("unknown": not in PLAN_CONFIG), the subscription's status
\* and whether an invoice is a renewal (billing_reason subscription_cycle).
EventTypes ==
  {"checkout.session.completed", "customer.subscription.updated",
   "customer.subscription.deleted", "invoice.payment_failed", "invoice.paid",
   "other"}
StripeStatuses == {"active", "past_due", "canceled", "trialing", "unpaid"}
StripeEvent(type, named, plan, status, cycle) ==
  [type |-> type, named |-> named, plan |-> plan, status |-> status,
   cycle |-> cycle]

\* PLAN_CONFIG[priceId]
PlanConfiguredStarterOnly(plan) == plan = "STARTER"
PlanConfigured(plan) == plan \in {"STARTER", "PRO"}

\* Whether the event's case reaches its update of the users row.
EventUpdatesAnyInvoice(ev) ==
  ev.named /\ (ev.type = "checkout.session.completed" => PlanConfigured(ev.plan))
           /\ ev.type # "other"
EventUpdates(ev) ==
  CASE ev.type = "checkout.session.completed" -> ev.named /\ PlanConfigured(ev.plan)
    [] ev.type = "customer.subscription.updated" -> ev.named
    [] ev.type = "customer.subscription.deleted" -> ev.named
    [] ev.type = "invoice.payment_failed" -> ev.named
    [] ev.type = "invoice.paid" -> ev.cycle /\ ev.named
    [] OTHER -> FALSE

\* The row after the update of the event's case.
EventRowKeepsLimit(row, ev) ==
  CASE ev.type = "checkout.session.completed" ->
         [row EXCEPT !.plan = ev.plan, !.plan_limits_scrapes = PlanLimit(ev.plan),
                     !.subscription_status = "active", !.usage_this_month = 0,
                     !.billing_date = "now"]
    [] ev.type = "customer.subscription.updated" ->
         IF PlanConfigured(ev.plan)
         THEN [row EXCEPT !.subscription_status = ev.status, !.plan = ev.plan,
                          !.plan_limits_scrapes = PlanLimit(ev.plan)]
         ELSE [row EXCEPT !.subscription_status = ev.status]
    [] ev.type = "customer.subscription.deleted" ->
         [row EXCEPT !.plan = "FREE", !.subscription_status = "canceled"]
    [] ev.type = "invoice.payment_failed" ->
         [row EXCEPT !.subscription_status = "past_due"]
    [] ev.type = "invoice.paid" ->
         [row EXCEPT !.usage_this_month = 0, !.subscription_status = "active",
                     !.billing_date = "now"]
    [] OTHER -> row
EventRow(row, ev) ==
  CASE ev.type = "checkout.session.completed" ->
         [row EXCEPT !.plan = ev.plan, !.plan_limits_scrapes = PlanLimit(ev.plan),
                     !.subscription_status = "active", !.usage_this_month = 0,
                     !.billing_date = "now"]
    [] ev.type = "customer.subscription.updated" ->
         IF PlanConfigured(ev.plan)
         THEN [row EXCEPT !.subscription_status = ev.status, !.plan = ev.plan,
                          !.plan_limits_scrapes = PlanLimit(ev.plan)]
         ELSE [row EXCEPT !.subscription_status = ev.status]
    [] ev.type = "customer.subscription.deleted" ->
         [row EXCEPT !.plan = "FREE", !.plan_limits_scrapes = FREE_LIMIT,
                     !.subscription_status = "canceled"]
    [] ev.type = "invoice.payment_failed" ->
         [row EXCEPT !.subscription_status = "past_due"]
    [] ev.type = "invoice.paid" ->
         [row EXCEPT !.usage_this_month = 0, !.subscription_status = "active",
                     !.billing_date = "now"]
    [] OTHER -> row

\* The webhook up to the update: a failed signature check answers 400; an
\* event whose case reaches no update is acknowledged (200 received).
WebhookUpdate(r, id, sigOk, ev) ==
  /\ pc[r] = "new"
  /\ IF ~sigOk
     THEN /\ Respond(r, 400)
          /\ UNCHANGED <<users, effects, reqUserId>>
     ELSE IF ~EventUpdates(ev)
     THEN /\ Respond(r, 200)
          /\ UNCHANGED <<users, effects, reqUserId>>
     ELSE /\ rowLock[id] = 0
          /\ users' = [users EXCEPT ![id] = IF @.exists THEN EventRow(@, ev) ELSE @]
          /\ reqUserId' = [reqUserId EXCEPT ![r] = id]
          /\ Wrote(r)
          /\ pc' = [pc EXCEPT ![r] = "webhook_invalidate"]
          /\ UNCHANGED resp
  /\ UNCHANGED <<reqUser, cache, redisUp>>
  /\ UNCHANGED <<users0, rowLock, tx, rpcRes, edgeVars>>

\* await invalidateUserCache(userId); break; res.json({ received: true })
WebhookInvalidate(r, cmdOk) ==
  /\ pc[r] = "webhook_invalidate"
  /\ cache' = invalidateUserCache(reqUserId[r], cmdOk)
  /\ CalledInvalidate(r, cmdOk)
  /\ Respond(r, 200)
  /\ UNCHANGED <<reqUserId, reqUser, redisUp>>
  /\ UNCHANGED <<ledgerVars, edgeVars>>

\* ---------------------------------------------------------------------- Spec
\* Accounts of Spec: a provisioned FREE account, paying accounts, past_due
\* accounts of both paid plans, a canceled account, and accounts without a
\* stored Google token.
SpecAccounts ==
  { <<"FREE", "none", TRUE>>, <<"FREE", "none", FALSE>>,
    <<"STARTER", "active", TRUE>>, <<"PRO", "active", TRUE>>,
    <<"PRO", "past_due", TRUE>>, <<"STARTER", "past_due", FALSE>>,
    <<"FREE", "canceled", TRUE>>, <<"FREE", "past_due", TRUE>> }

SpecTables ==
  { [id \in Ids |-> CASE id = "u1" -> a [] id = "u2" -> b [] OTHER -> NoRow] :
      a \in UNION { SeedRowsOf(t[1], t[2], t[3], ReqHeadroom) : t \in SpecAccounts },
      b \in BystanderRows }

Init ==
  /\ users \in SpecTables
  /\ users0 = users
  /\ rowLock = [id \in Ids |-> 0]
  /\ tx = [s \in Sessions |-> NoTx]
  /\ rpcRes = [s \in Sessions |-> NoRes]
  /\ InitRoute("new")
  /\ InitEdge
  /\ cache = [id \in Ids |-> NoRow]
  /\ redisUp = TRUE

LedgerStep(r) ==
  /\ \/ TxSelectForUpdate(r)
     \/ TxCheckLimit(r)
     \/ TxUpdate(r)
     \/ TxUpdateFails(r)
     \/ TxReturn(r)
  /\ UNCHANGED routeVars

Next ==
  \/ \E r \in Reqs : AuthReject(r)
  \/ \E r \in Reqs, id \in ReqIds, cmdOk \in BOOLEAN : AuthGetCached(r, id, cmdOk)
  \/ \E r \in Reqs, dbOk \in BOOLEAN : AuthDbRead(r, dbOk)
  \/ \E r \in Reqs, cmdOk \in BOOLEAN : AuthSetCache(r, cmdOk)
  \/ \E r \in Reqs : ExportInvalidBody(r)
  \/ \E r \in Reqs : ExportCallRpc(r)
  \/ \E r \in Reqs, res \in {RpcError, RpcEmpty} : ExportRpcUnreached(r, res)
  \/ \E r \in Reqs : LedgerStep(r)
  \/ \E r \in Reqs : ExportRpcFailed(r)
  \/ \E r \in Reqs : ExportDenied(r)
  \/ \E r \in Reqs : ExportAllowed(r)
  \/ \E r \in Reqs, cmdOk \in BOOLEAN : ExportInvalidate(r, cmdOk)
  \/ \E r \in Reqs : ExportToken(r)
  \/ \E r \in Reqs, outcome \in {"ok"} \cup ErrorKinds : ExportCreate(r, outcome)
  \/ \E r \in Reqs, ok \in BOOLEAN : ExportRefresh(r, ok)
  \/ \E r \in Reqs, cmdOk \in BOOLEAN : ExportRefreshInvalidate(r, cmdOk)
  \/ \E r \in Reqs, insertOk \in BOOLEAN : ExportActivity(r, insertOk)
  \/ \E r \in Reqs : RequestEnds(r)
  \/ RedisToggle
  \/ \E id \in Ids : CacheExpire(id)

Spec == Init /\ [][Next]_vars

\* ------------------------------------------------------------------ SpecCache
\* The profile cache under every writer of the users table: requests run
\* requireAuth and the handlers of settings, account deletion, checkout and
\* scrape, the OAuth callback signs in, Stripe delivers webhook events, and
\* the Redis connection comes and goes.
CacheAccounts ==
  { [Row(2, STARTER_LIMIT, "STARTER", "active", TRUE) EXCEPT !.billing_date = "past"],
    Row(5, FREE_LIMIT, "FREE", "none", TRUE) }

CacheEvents ==
  { StripeEvent("checkout.session.completed", TRUE, "PRO", "active", FALSE),
    StripeEvent("customer.subscription.updated", TRUE, "unknown", "trialing", FALSE),
    StripeEvent("customer.subscription.deleted", TRUE, "unknown", "canceled", FALSE),
    StripeEvent("invoice.payment_failed", TRUE, "unknown", "past_due", FALSE),
    StripeEvent("invoice.paid", TRUE, "unknown", "active", TRUE),
    StripeEvent("invoice.paid", TRUE, "unknown", "active", FALSE) }

InitCache ==
  /\ users \in { [id \in Ids |-> CASE id = "u1" -> a [] id = "u2" -> b [] OTHER -> NoRow] :
                   a \in CacheAccounts, b \in BystanderRows }
  /\ users0 = users
  /\ rowLock = [id \in Ids |-> 0]
  /\ tx = [s \in Sessions |-> NoTx]
  /\ rpcRes = [s \in Sessions |-> NoRes]
  /\ InitRoute("idle")
  /\ InitEdge
  /\ cache = [id \in Ids |-> NoRow]
  /\ redisUp = TRUE

\* The server accepts a request into a free slot, up to n requests.
AcceptUpTo(r, n) ==
  /\ pc[r] = "idle"
  /\ arrivals < n
  /\ arrivals' = arrivals + 1
  /\ pc' = [pc EXCEPT ![r] = "new"]
  /\ UNCHANGED <<reqUserId, reqUser, resp, cache, redisUp, effects>>
  /\ UNCHANGED <<req, rlStore, memStore, passed, redisClient, stageLog,
                 isShuttingDown>>
  /\ UNCHANGED ledgerVars
Accept(r) == AcceptUpTo(r, MaxRequests)

\* The response is on the wire: the slot is free.
Finish(r) ==
  /\ pc[r] = "done"
  /\ pc' = [pc EXCEPT ![r] = "idle"]
  /\ reqUserId' = [reqUserId EXCEPT ![r] = "ghost"]
  /\ reqUser' = [reqUser EXCEPT ![r] = NoRow]
  /\ resp' = [resp EXCEPT ![r] = NoResp]
  /\ effects' = [effects EXCEPT ![r] = NoEffects]
  /\ stageLog' = [stageLog EXCEPT ![r] = <<>>]
  /\ UNCHANGED <<cache, redisUp>>
  /\ UNCHANGED <<ledgerVars, limitVars>>

NextCache ==
  \/ \E r \in Reqs : Accept(r)
  \/ \E r \in Reqs : AuthReject(r)
  \/ \E r \in Reqs, cmdOk \in BOOLEAN : AuthGetCached(r, "u1", cmdOk)
  \/ \E r \in Reqs, dbOk \in BOOLEAN : AuthDbRead(r, dbOk)
  \/ \E r \in Reqs, cmdOk \in BOOLEAN : AuthSetCache(r, cmdOk)
  \/ \E r \in Reqs, smart \in BOOLEAN, dbOk \in BOOLEAN : SettingsUpdate(r, smart, dbOk)
  \/ \E r \in Reqs, cmdOk \in BOOLEAN : SettingsInvalidate(r, cmdOk)
  \/ \E r \in Reqs, outcome \in DeleteOutcomes : DeleteUserRow(r, outcome)
  \/ \E r \in Reqs, authOk \in BOOLEAN, cmdOk \in BOOLEAN : DeleteAuthUser(r, authOk, cmdOk)
  \/ \E r \in Reqs, outcome \in CheckoutOutcomes : CheckoutCustomer(r, outcome)
  \/ \E r \in Reqs, ok \in BOOLEAN : CheckoutSession(r, ok)
  \/ \E r \in Reqs, outcome \in CallbackOutcomes : AuthCallback(r, "u1", outcome)
  \/ \E r \in Reqs, bodyOk \in BOOLEAN, dbOk \in BOOLEAN : ScrapeReset(r, bodyOk, dbOk)
  \/ \E r \in Reqs, ok \in BOOLEAN : ScrapeExtract(r, ok)
  \/ \E r \in Reqs, sigOk \in BOOLEAN, ev \in CacheEvents : WebhookUpdate(r, "u1", sigOk, ev)
  \/ \E r \in Reqs, cmdOk \in BOOLEAN : WebhookInvalidate(r, cmdOk)
  \/ \E r \in Reqs : Finish(r)
  \/ RedisToggle
  \/ \E id \in Ids : CacheExpire(id)

SpecCache == InitCache /\ [][NextCache]_vars

\* ------------------------------------------------------------- rate limiting
\* createStore(prefix): a RedisStore on redisClient when there is one,
\* otherwise undefined, and the limiter then makes its own MemoryStore.
createStore(prefix) == IF redisClient THEN "RedisStore" ELSE "MemoryStore"

\* The counters of a limiter: prefix: `rl:${prefix}:` in Redis, the
\* limiter's own store in memory.
StorePrefixShared(l) == "gen"
StorePrefix(l) == l

\* getClientIp: the first entry of x-forwarded-for, else req.ip
getClientIp(q) == IF q.xff # <<>> THEN Head(q.xff) ELSE q.ip

\* keyGenerator: user:<req.user.id> when req.user is set, else ip:<address>
keyGenerator(r) ==
  IF reqUser[r].exists THEN <<"user", reqUserId[r]>>
                       ELSE <<"ip", getClientIp(req[r])>>

\* authLimiter has no keyGenerator: the library's default key, req.ip
defaultKey(r) == <<"raw", req[r].ip>>

LimiterKey(l, r) ==
  <<StorePrefix(l), IF l = "auth" THEN defaultKey(r) ELSE keyGenerator(r)>>

\* skipSuccessfulRequests: true (authLimiter only)
SkipNothing(l) == FALSE
skipSuccessfulRequests(l) == l = "auth"

\* The limiter's verdict on the hit count the store returned.
ExceededLate(l, totalHits) == totalHits > Max(l) + 1
Exceeded(l, totalHits) == totalHits > Max(l)

\* The sendCommand of createStore rejects when Redis is not connected.
StoreFails == redisClient /\ ~redisUp

\* A limiter's middleware for request r; to: the position of the request
\* when the limiter calls next().  The store's increment fails: the error
\* goes to next(err) and the error handler answers 500.  Otherwise the key's
\* counter is incremented and compared with max: 429 by the limiter's
\* handler, or next().
Limit(l, r, to) ==
  LET k == LimiterKey(l, r)
      p == r
      totalHits == IF createStore(l) = "RedisStore" THEN rlStore[k] + 1
                                                    ELSE memStore[p][k] + 1
  IN IF StoreFails
     THEN /\ Respond(r, 500)
          /\ UNCHANGED <<rlStore, memStore, passed, stageLog>>
     ELSE /\ IF createStore(l) = "RedisStore"
             THEN rlStore' = [rlStore EXCEPT ![k] = totalHits] /\ UNCHANGED memStore
             ELSE memStore' = [memStore EXCEPT ![p][k] = totalHits] /\ UNCHANGED rlStore
          /\ IF Exceeded(l, totalHits)
             THEN /\ Respond(r, 429)
                  /\ UNCHANGED <<passed, stageLog>>
             ELSE /\ pc' = [pc EXCEPT ![r] = to]
                  /\ passed' = [passed EXCEPT ![k].through = @ + 1]
                  /\ stageLog' = [stageLog EXCEPT ![r] = Append(@, l)]
                  /\ UNCHANGED resp

\* What follows the limiter of a mount point: the routes of authRouter are
\* public (and /health has no limiter), the other routers start with
\* requireAuth.
AfterScopedSkipsAuth(path) == "handler"
AfterScoped(path) == IF path \in {"auth", "health"} THEN "handler" ELSE "new"

\* app.use(generalLimiter): every request but those of /health (skip).
GeneralLimiter(r) ==
  /\ pc[r] = "arrive"
  /\ IF req[r].path = "health"
     THEN /\ pc' = [pc EXCEPT ![r] = "scoped"]
          /\ UNCHANGED <<resp, rlStore, memStore, passed, stageLog>>
     ELSE Limit("gen", r, "scoped")
  /\ UNCHANGED <<reqUserId, reqUser, cache, redisUp, effects>>
  /\ UNCHANGED <<req, redisClient, arrivals, isShuttingDown>>
  /\ UNCHANGED ledgerVars

\* app.use('/api/auth', authLimiter, authRouter)
AuthLimiter(r) ==
  /\ pc[r] = "scoped" /\ req[r].path = "auth"
  /\ Limit("auth", r, AfterScoped("auth"))
  /\ UNCHANGED <<reqUserId, reqUser, cache, redisUp, effects>>
  /\ UNCHANGED <<req, redisClient, arrivals, isShuttingDown>>
  /\ UNCHANGED ledgerVars

\* app.use('/api/scrape', scrapeLimiter, scrapeRouter)
ScrapeLimiter(r) ==
  /\ pc[r] = "scoped" /\ req[r].path = "scrape"
  /\ Limit("scrape", r, AfterScoped("scrape"))
  /\ UNCHANGED <<reqUserId, reqUser, cache, redisUp, effects>>
  /\ UNCHANGED <<req, redisClient, arrivals, isShuttingDown>>
  /\ UNCHANGED ledgerVars

\* app.use('/api/sheets', sheetsLimiter, sheetsRouter)
SheetsLimiter(r) ==
  /\ pc[r] = "scoped" /\ req[r].path = "sheets"
  /\ Limit("sheets", r, AfterScoped("sheets"))
  /\ UNCHANGED <<reqUserId, reqUser, cache, redisUp, effects>>
  /\ UNCHANGED <<req, redisClient, arrivals, isShuttingDown>>
  /\ UNCHANGED ledgerVars

\* app.get('/health') and app.use('/api/user', userRouter): no limiter of
\* their own; the health check answers, userRouter starts with requireAuth.
Unlimited(r) ==
  /\ pc[r] = "scoped" /\ req[r].path \in {"health", "user"}
  /\ pc' = [pc EXCEPT ![r] = AfterScoped(req[r].path)]
  /\ UNCHANGED <<reqUserId, reqUser, resp, cache, redisUp, effects>>
  /\ UNCHANGED <<ledgerVars, edgeVars>>

\* The route's handler runs and answers.
Execute(r, status) ==
  /\ pc[r] = "handler"
  /\ stageLog' = [stageLog EXCEPT ![r] = Append(@, "execute")]
  /\ Respond(r, status)
  /\ UNCHANGED <<reqUserId, reqUser, cache, redisUp, effects>>
  /\ UNCHANGED <<ledgerVars, limitVars>>

\* The server accepts request q into slot r.
Arrive(r, q) ==
  /\ pc[r] = "idle"
  /\ arrivals < MaxArrivals
  /\ arrivals' = arrivals + 1
  /\ req' = [req EXCEPT ![r] = q]
  /\ pc' = [pc EXCEPT ![r] = "arrive"]
  /\ UNCHANGED <<reqUserId, reqUser, resp, cache, redisUp, effects>>
  /\ UNCHANGED <<rlStore, memStore, passed, redisClient, stageLog,
                 isShuttingDown>>
  /\ UNCHANGED ledgerVars

\* The response has been sent ('finish').  A limiter with
\* skipSuccessfulRequests that counted the request takes the hit back when
\* the status is below 400; the decrement is lost when the store's command
\* fails.
ResponseFinished(r) ==
  /\ pc[r] = "done"
  /\ LET l == "auth"
         k == LimiterKey(l, r)
         p == r
     IN IF /\ skipSuccessfulRequests(l)
           /\ req[r].path = "auth"
           /\ \E i \in 1 .. Len(stageLog[r]) : stageLog[r][i] = l
           /\ resp[r].status < 400
           /\ ~StoreFails
        THEN /\ IF createStore(l) = "RedisStore"
                THEN /\ rlStore' = [rlStore EXCEPT ![k] = @ - 1]
                     /\ UNCHANGED memStore
                ELSE /\ memStore' = [memStore EXCEPT ![p][k] =
                                       IF @ > 0 THEN @ - 1 ELSE @]
                     /\ UNCHANGED rlStore
             /\ passed' = [passed EXCEPT ![k].exempt = @ + 1]
        ELSE UNCHANGED <<rlStore, memStore, passed>>
  /\ pc' = [pc EXCEPT ![r] = "idle"]
  /\ reqUserId' = [reqUserId EXCEPT ![r] = "ghost"]
  /\ reqUser' = [reqUser EXCEPT ![r] = NoRow]
  /\ resp' = [resp EXCEPT ![r] = NoResp]
  /\ effects' = [effects EXCEPT ![r] = NoEffects]
  /\ req' = [req EXCEPT ![r] = NoReq]
  /\ stageLog' = [stageLog EXCEPT ![r] = <<>>]
  /\ UNCHANGED <<cache, redisUp, redisClient, arrivals, isShuttingDown>>
  /\ UNCHANGED ledgerVars

\* ---------------------------------------------------------------- SpecLimiter
\* The middleware chain of the server: the general limiter, the limiter of
\* the mount point, requireAuth on the protected routes, the handler; two
\* server processes, one request each at a time, share Redis when REDIS_URL
\* is set.
Requests ==
  { Request("auth", "a", <<>>, "none"),
    Request("scrape", "a", <<>>, "u1"),
    Request("scrape", "b", <<>>, "u1"),
    Request("sheets", "b", <<"a", "b">>, "none"),
    Request("user", "a", <<>>, "u1"),
    Request("health", "a", <<>>, "none") }

\* The counters when the server is observed: a fresh window, a window in
\* which the general limiter is RlHeadroom short of its max, or one in which
\* the three other limiters are.
SeedProfiles ==
  { [k \in RLKeys |-> IF k[1] \in S THEN Max(k[1]) - RlHeadroom ELSE 0] :
      S \in { {}, {"gen"}, {"auth", "scrape", "sheets"} } }

LimiterAccounts == { Row(2, STARTER_LIMIT, "STARTER", "active", TRUE) }

InitLimiter ==
  /\ users \in { [id \in Ids |-> CASE id = "u1" -> a [] id = "u2" -> b [] OTHER -> NoRow] :
                   a \in LimiterAccounts, b \in BystanderRows }
  /\ users0 = users
  /\ rowLock = [id \in Ids |-> 0]
  /\ tx = [s \in Sessions |-> NoTx]
  /\ rpcRes = [s \in Sessions |-> NoRes]
  /\ InitRoute("idle")
  /\ cache = [id \in Ids |-> NoRow]
  /\ redisClient \in BOOLEAN
  /\ redisUp = redisClient
  /\ req = [s \in Sessions |-> NoReq]
  /\ stageLog = [s \in Sessions |-> <<>>]
  /\ arrivals = 0
  /\ isShuttingDown = FALSE
  /\ \E seed \in SeedProfiles :
       /\ rlStore = (IF redisClient THEN seed ELSE NoHits)
       /\ memStore = [p \in Procs |-> IF redisClient THEN NoHits ELSE seed]
       /\ passed = [k \in RLKeys |-> Passed(seed[k], 0)]

NextLimiter ==
  \/ \E r \in Reqs, q \in Requests : Arrive(r, q)
  \/ \E r \in Reqs : GeneralLimiter(r)
  \/ \E r \in Reqs : AuthLimiter(r)
  \/ \E r \in Reqs : ScrapeLimiter(r)
  \/ \E r \in Reqs : SheetsLimiter(r)
  \/ \E r \in Reqs : Unlimited(r)
  \/ \E r \in Reqs : req[r].cred = "none" /\ AuthReject(r)
  \/ \E r \in Reqs, cmdOk \in BOOLEAN :
       req[r].cred # "none" /\ AuthGetCached(r, req[r].cred, cmdOk)
  \/ \E r \in Reqs, dbOk \in BOOLEAN : AuthDbRead(r, dbOk)
  \/ \E r \in Reqs, cmdOk \in BOOLEAN : AuthSetCache(r, cmdOk)
  \/ \E r \in Reqs, status \in {200, 401} : Execute(r, status)
  \/ \E r \in Reqs : ResponseFinished(r)
  \/ RedisToggle

SpecLimiter == InitLimiter /\ [][NextLimiter]_vars

\* ------------------------------------------------------------------- SpecAuth
\* The Authorization header of a request: its scheme ("none": no header) and
\* what follows the scheme and the blank.
Header(scheme, token) == [scheme |-> scheme, token |-> token]
NoHeader == Header("none", "")

\* authHeader && authHeader.startsWith('Bearer ')
HasBearerAnyScheme(authHeader) == authHeader.scheme # "none"
HasBearer(authHeader) == authHeader.scheme = "Bearer"
\* const token = authHeader.substring(7)
Token(authHeader) == authHeader.token

\* A request with its Authorization header; cred is what
\* supabase.auth.getUser(token) does with the token: "none" an error
\* (invalid or expired), "nouser" no error and no user, "throws" the call
\* rejects, otherwise the id of the user.
AuthRequest(path, authHeader, cred) ==
  [path |-> path, ip |-> "a", xff |-> <<>>, cred |-> cred,
   authorization |-> authHeader]

\* requireAuth up to the verified user: the four 401 exits.
UnauthorizedOrNoProfile(q) ==
  \/ ~HasBearer(q.authorization)
  \/ Token(q.authorization) = ""
  \/ q.cred \in {"none", "nouser", "ghost"}
Unauthorized(q) ==
  \/ ~HasBearer(q.authorization)
  \/ Token(q.authorization) = ""
  \/ q.cred = "none"
  \/ q.cred = "nouser"

\* supabase.auth.getUser(token) rejects: the catch answers 500.
getUserThrows(q) ==
  /\ HasBearer(q.authorization) /\ Token(q.authorization) # ""
  /\ q.cred = "throws"

AuthUnauthorized(r) ==
  /\ req[r].path # "health"
  /\ pc[r] = "new" /\ Unauthorized(req[r])
  /\ AuthReject(r)

AuthVerified(r, cmdOk) ==
  /\ req[r].path # "health"
  /\ pc[r] = "new" /\ ~Unauthorized(req[r]) /\ ~getUserThrows(req[r])
  /\ AuthGetCached(r, req[r].cred, cmdOk)

\* catch (error): 500 'Internal server error during authentication', when
\* getUser rejects or the query of the users table rejects.
AuthThrows(r) ==
  /\ req[r].path # "health"
  /\ \/ pc[r] = "new" /\ getUserThrows(req[r])
     \/ pc[r] = "auth_db"
  /\ Respond(r, 500)
  /\ UNCHANGED <<reqUserId, reqUser, cache, redisUp, effects>>
  /\ UNCHANGED <<ledgerVars, edgeVars>>

\* The body of the health probe's response.
HealthResp(status, text, redis, supabase) ==
  [status |-> status, current |-> 0, limit |-> 0, hasUsage |-> FALSE,
   health |-> text, redis |-> redis, supabase |-> supabase]

\* GET /health: 503 shutting_down while the server shuts down; otherwise
\* redisHealthy = isRedisConnected(), supabaseHealthy = the select of one
\* users id returned no error and did not throw; 200 ok when both, else 207
\* degraded.
Health(r, supabaseHealthy) ==
  /\ pc[r] = "new" /\ req[r].path = "health"
  /\ LET redisHealthy == redisClient /\ redisUp
         isHealthy == redisHealthy /\ supabaseHealthy
     IN resp' = [resp EXCEPT ![r] =
                   IF isShuttingDown
                   THEN HealthResp(503, "shutting_down", "absent", "absent")
                   ELSE HealthResp(IF isHealthy THEN 200 ELSE 207,
                                   IF isHealthy THEN "ok" ELSE "degraded",
                                   IF redisHealthy THEN "ok" ELSE "error",
                                   IF supabaseHealthy THEN "ok" ELSE "error")]
  /\ pc' = [pc EXCEPT ![r] = "done"]
  /\ UNCHANGED <<reqUserId, reqUser, cache, redisUp, effects>>
  /\ UNCHANGED <<ledgerVars, edgeVars>>

\* gracefulShutdown(signal): isShuttingDown = true; server.close()
GracefulShutdown ==
  /\ ~isShuttingDown
  /\ isShuttingDown' = TRUE
  /\ UNCHANGED <<pc, reqUserId, reqUser, resp, cache, redisUp, effects>>
  /\ UNCHANGED <<ledgerVars, stageLog>>
  /\ UNCHANGED <<req, rlStore, memStore, passed, redisClient, arrivals>>

\* The server accepts request q (until server.close()).
Receive(r, q) ==
  /\ pc[r] = "idle"
  /\ ~isShuttingDown
  /\ arrivals < MaxAuthRequests
  /\ arrivals' = arrivals + 1
  /\ req' = [req EXCEPT ![r] = q]
  /\ pc' = [pc EXCEPT ![r] = "new"]
  /\ UNCHANGED <<reqUserId, reqUser, resp, cache, redisUp, effects>>
  /\ UNCHANGED <<rlStore, memStore, passed, redisClient, stageLog,
                 isShuttingDown>>
  /\ UNCHANGED ledgerVars

\* Requests of /api/user with every shape of credential, and the probe.
AuthRequests ==
  { AuthRequest("health", NoHeader, "none"),
    AuthRequest("user", NoHeader, "u1"),
    AuthRequest("user", Header("Basic", "t"), "u1"),
    AuthRequest("user", Header("Bearer", ""), "u1"),
    AuthRequest("user", Header("Bearer", "t"), "none"),
    AuthRequest("user", Header("Bearer", "t"), "nouser"),
    AuthRequest("user", Header("Bearer", "t"), "throws"),
    AuthRequest("user", Header("Bearer", "t"), "u1"),
    AuthRequest("user", Header("Bearer", "t"), "ghost") }

InitAuth ==
  /\ users \in { [id \in Ids |-> CASE id = "u1" -> a [] id = "u2" -> b [] OTHER -> NoRow] :
                   a \in LimiterAccounts, b \in BystanderRows }
  /\ users0 = users
  /\ rowLock = [id \in Ids |-> 0]
  /\ tx = [s \in Sessions |-> NoTx]
  /\ rpcRes = [s \in Sessions |-> NoRes]
  /\ InitRoute("idle")
  /\ InitEdge
  /\ cache = [id \in Ids |-> NoRow]
  /\ redisUp = TRUE

\* requireAuth in front of the routes of /api/user (PATCH /settings and a
\* route that only reads), and GET /health.
NextAuth ==
  \/ \E r \in Reqs, q \in AuthRequests : Receive(r, q)
  \/ \E r \in Reqs : AuthUnauthorized(r)
  \/ \E r \in Reqs, cmdOk \in BOOLEAN : AuthVerified(r, cmdOk)
  \/ \E r \in Reqs : AuthThrows(r)
  \/ \E r \in Reqs, dbOk \in BOOLEAN : AuthDbRead(r, dbOk)
  \/ \E r \in Reqs, cmdOk \in BOOLEAN : AuthSetCache(r, cmdOk)
  \/ \E r \in Reqs, smart \in BOOLEAN, dbOk \in BOOLEAN : SettingsUpdate(r, smart, dbOk)
  \/ \E r \in Reqs, cmdOk \in BOOLEAN : SettingsInvalidate(r, cmdOk)
  \/ \E r \in Reqs : Execute(r, 200)
  \/ \E r \in Reqs, supabaseHealthy \in BOOLEAN : Health(r, supabaseHealthy)
  \/ \E r \in Reqs : ResponseFinished(r)
  \/ RedisToggle
  \/ GracefulShutdown

SpecAuth == InitAuth /\ [][NextAuth]_vars

\* ------------------------------------------------------------------ SpecUsage
\* Every writer of usage_this_month against one account in the month after a
\* rollover: scrape requests (the lazy reset and the limit check on
\* req.user), export requests (the RPC), the Stripe events that reset the
\* usage, and the OAuth callback that provisions a second account.
UsageAccounts ==
  { [Row(4, FREE_LIMIT, "FREE", "canceled", TRUE) EXCEPT !.billing_date = "past"],
    [Row(4, PRO_LIMIT, "PRO", "past_due", TRUE) EXCEPT !.billing_date = "past"],
    Row(5, FREE_LIMIT, "FREE", "canceled", TRUE) }

UsageEvents ==
  { StripeEvent("checkout.session.completed", TRUE, "STARTER", "active", FALSE),
    StripeEvent("invoice.paid", TRUE, "unknown", "active", TRUE) }

InitUsage ==
  /\ users \in { [id \in Ids |-> IF id = "u1" THEN a ELSE NoRow] : a \in UsageAccounts }
  /\ users0 = users
  /\ rowLock = [id \in Ids |-> 0]
  /\ tx = [s \in Sessions |-> NoTx]
  /\ rpcRes = [s \in Sessions |-> NoRes]
  /\ InitRoute("idle")
  /\ InitEdge
  /\ cache = [id \in Ids |-> NoRow]
  /\ redisUp = TRUE

\* The response is on the wire: the slot is free and its RPC call is over.
Complete(r) ==
  /\ pc[r] = "done"
  /\ tx[r].pc \in {"idle", "done", "failed"}
  /\ pc' = [pc EXCEPT ![r] = "idle"]
  /\ reqUserId' = [reqUserId EXCEPT ![r] = "ghost"]
  /\ reqUser' = [reqUser EXCEPT ![r] = NoRow]
  /\ resp' = [resp EXCEPT ![r] = NoResp]
  /\ effects' = [effects EXCEPT ![r] = NoEffects]
  /\ tx' = [tx EXCEPT ![r] = NoTx]
  /\ rpcRes' = [rpcRes EXCEPT ![r] = NoRes]
  /\ stageLog' = [stageLog EXCEPT ![r] = <<>>]
  /\ UNCHANGED <<users, users0, rowLock, cache, redisUp, limitVars>>

NextUsage ==
  \/ \E r \in Reqs : AcceptUpTo(r, MaxUsageRequests)
  \/ \E r \in Reqs, cmdOk \in BOOLEAN : AuthGetCached(r, "u1", cmdOk)
  \/ \E r \in Reqs : AuthDbRead(r, TRUE)
  \/ \E r \in Reqs, cmdOk \in BOOLEAN : AuthSetCache(r, cmdOk)
  \/ \E r \in Reqs, dbOk \in BOOLEAN : ScrapeReset(r, TRUE, dbOk)
  \/ \E r \in Reqs : ScrapeExtract(r, TRUE)
  \/ \E r \in Reqs : ExportCallRpc(r)
  \/ \E r \in Reqs : LedgerStep(r)
  \/ \E r \in Reqs : ExportRpcFailed(r)
  \/ \E r \in Reqs : ExportDenied(r)
  \/ \E r \in Reqs : ExportAllowed(r)
  \/ \E r \in Reqs, cmdOk \in BOOLEAN : ExportInvalidate(r, cmdOk)
  \/ \E r \in Reqs : ExportToken(r)
  \/ \E r \in Reqs, outcome \in {"ok", "other"} : ExportCreate(r, outcome)
  \/ \E r \in Reqs : ExportActivity(r, TRUE)
  \/ \E r \in Reqs : AuthCallback(r, "u2", "signed_in")
  \/ \E r \in Reqs, ev \in UsageEvents : WebhookUpdate(r, "u1", TRUE, ev)
  \/ \E r \in Reqs, cmdOk \in BOOLEAN : WebhookInvalidate(r, cmdOk)
  \/ \E r \in Reqs : Complete(r)

SpecUsage == InitUsage /\ [][NextUsage]_vars

\* ---------------------------------------------------------------- SpecWebhook
\* Stripe delivers every shape of event for two accounts, the second of which
\* signs in for the first time, while a caller consumes quota of the first
\* through the RPC.
Delivery(path, account, signed, event) ==
  [path |-> path, account |-> account, signed |-> signed, event |-> event]
NoEvent == StripeEvent("other", FALSE, "unknown", "active", FALSE)

WebhookEvents ==
  { StripeEvent("checkout.session.completed", TRUE, p, "active", FALSE) :
      p \in {"STARTER", "PRO", "unknown"} }
  \cup { StripeEvent("customer.subscription.updated", TRUE, p, st, FALSE) :
           p \in {"STARTER", "unknown"}, st \in {"active", "past_due", "trialing"} }
  \cup { StripeEvent("customer.subscription.deleted", TRUE, "unknown", "canceled", FALSE),
         StripeEvent("invoice.payment_failed", TRUE, "unknown", "past_due", FALSE),
         StripeEvent("invoice.paid", TRUE, "unknown", "active", TRUE),
         StripeEvent("invoice.paid", TRUE, "unknown", "active", FALSE) }
  \cup { StripeEvent(t, FALSE, "STARTER", "active", TRUE) : t \in EventTypes }

\* The events delivered for the account that signs in during the behaviour.
NewAccountEvents ==
  { StripeEvent("checkout.session.completed", TRUE, "STARTER", "active", FALSE),
    StripeEvent("customer.subscription.updated", TRUE, "unknown", "unpaid", FALSE) }

\* Requests: events with a valid stripe-signature, one without, a sign-in.
Deliveries ==
  { Delivery("webhook", "u1", TRUE, ev) : ev \in WebhookEvents }
  \cup { Delivery("webhook", "u2", TRUE, ev) : ev \in NewAccountEvents }
  \cup { Delivery("webhook", "u1", FALSE,
                   StripeEvent("checkout.session.completed", TRUE, "PRO", "active", FALSE)) }
  \cup { Delivery("callback", "u2", TRUE, NoEvent) }

WebhookAccounts ==
  { Row(4, PRO_LIMIT, "PRO", "active", TRUE),
    Row(6, STARTER_LIMIT, "STARTER", "active", TRUE),
    Row(5, FREE_LIMIT, "FREE", "none", TRUE) }

\* The caller of the RPC next to the request slots.
Consumers == {NumCalls}

InitWebhook ==
  /\ users \in { [id \in Ids |-> IF id = "u1" THEN a ELSE NoRow] : a \in WebhookAccounts }
  /\ users0 = users
  /\ rowLock = [id \in Ids |-> 0]
  /\ tx = [s \in Sessions |-> NoTx]
  /\ rpcRes = [s \in Sessions |-> NoRes]
  /\ pc = [s \in Sessions |-> IF s \in Reqs THEN "idle" ELSE "off"]
  /\ reqUserId = [s \in Sessions |-> "ghost"]
  /\ reqUser = [s \in Sessions |-> NoRow]
  /\ resp = [s \in Sessions |-> NoResp]
  /\ effects = [s \in Sessions |-> NoEffects]
  /\ InitEdge
  /\ cache = [id \in Ids |-> NoRow]
  /\ redisUp = TRUE

\* The server accepts a request of Stripe or of a signing-in user; the
\* requests of this specification come one after the other.
Deliver(r, q) ==
  /\ \A s \in Reqs : pc[s] = "idle"
  /\ arrivals < MaxDeliveries
  /\ arrivals' = arrivals + 1
  /\ req' = [req EXCEPT ![r] = q]
  /\ pc' = [pc EXCEPT ![r] = "new"]
  /\ UNCHANGED <<reqUserId, reqUser, resp, cache, redisUp, effects>>
  /\ UNCHANGED <<rlStore, memStore, passed, redisClient, stageLog,
                 isShuttingDown>>
  /\ UNCHANGED ledgerVars

\* POST /api/billing/webhook with the delivered event.
WebhookDelivery(r) ==
  /\ pc[r] = "new"
  /\ req[r].path = "webhook"
  /\ WebhookUpdate(r, req[r].account, req[r].signed, req[r].event)

\* The handler throws before its update (stripe.subscriptions.retrieve or
\* the query of the store rejects): the catch logs '[Billing] Webhook
\* handler error', and the event is acknowledged all the same.
WebhookFails(r) ==
  /\ pc[r] = "new"
  /\ req[r].path = "webhook"
  /\ req[r].signed
  /\ req[r].event.type # "other"
  /\ Respond(r, 200)
  /\ stageLog' = [stageLog EXCEPT ![r] = Append(@, "handler_error")]
  /\ UNCHANGED <<reqUserId, reqUser, cache, redisUp, effects>>
  /\ UNCHANGED <<ledgerVars, limitVars>>

\* POST /api/auth/callback of the delivered sign-in.
CallbackDelivery(r) ==
  /\ pc[r] = "new"
  /\ req[r].path = "callback"
  /\ AuthCallback(r, req[r].account, "signed_in")

\* A caller sends the RPC for the first account, and takes its result.
Consume(c) ==
  /\ arrivals < MaxDeliveries
  /\ arrivals' = arrivals + 1
  /\ LedgerCall(c, "u1")
  /\ UNCHANGED <<pc, reqUserId, reqUser, resp, cache, redisUp, effects, req,
                 rlStore, memStore, passed, redisClient, stageLog,
                 isShuttingDown>>
\* The webhook's (or the callback's) response is on the wire.
Acknowledged(r) ==
  /\ pc[r] = "done"
  /\ pc' = [pc EXCEPT ![r] = "idle"]
  /\ req' = [req EXCEPT ![r] = NoReq]
  /\ reqUserId' = [reqUserId EXCEPT ![r] = "ghost"]
  /\ resp' = [resp EXCEPT ![r] = NoResp]
  /\ effects' = [effects EXCEPT ![r] = NoEffects]
  /\ stageLog' = [stageLog EXCEPT ![r] = <<>>]
  /\ UNCHANGED <<reqUser, cache, redisUp, rlStore, memStore, passed,
                 redisClient, arrivals, isShuttingDown>>
  /\ UNCHANGED ledgerVars

ConsumeReturns(c) ==
  /\ pc[c] = "off"
  /\ tx[c].pc \in {"done", "failed"}
  /\ tx' = [tx EXCEPT ![c] = NoTx]
  /\ rpcRes' = [rpcRes EXCEPT ![c] = NoRes]
  /\ UNCHANGED <<users, users0, rowLock, routeVars>>

NextWebhook ==
  \/ \E r \in Reqs, q \in Deliveries : Deliver(r, q)
  \/ \E r \in Reqs : WebhookDelivery(r)
  \/ \E r \in Reqs : WebhookFails(r)
  \/ \E r \in Reqs, cmdOk \in BOOLEAN : WebhookInvalidate(r, cmdOk)
  \/ \E r \in Reqs : CallbackDelivery(r)
  \/ \E r \in Reqs : Acknowledged(r)
  \/ \E c \in Consumers : Consume(c)
  \/ \E c \in Consumers : CallStep(c)
  \/ \E c \in Consumers : ConsumeReturns(c)

SpecWebhook == InitWebhook /\ [][NextWebhook]_vars

\* =================================================================== claims
\* The effective limit of the data model: the reduced limit for a past_due
\* account, the nominal quota of the plan otherwise.
EffectiveLimitOf(row) ==
  IF row.subscription_status = "past_due" THEN 5 ELSE row.plan_limits_scrapes

MinOf(a, b) == IF a <= b THEN a ELSE b

\* The calls on account id that returned a result row, and those allowed.
ReturnedCalls(id) ==
  { c \in Sessions : tx[c].id = id /\ rpcRes[c].kind = "row" }
AllowedCalls(id) ==
  { c \in Sessions : tx[c].id = id /\ rpcRes[c].kind = "row" /\ rpcRes[c].allowed }

\* The step in which call c returns its result row.
Returns(c) == rpcRes[c].kind = "none" /\ rpcRes'[c].kind = "row"

\* C1 (at-most-N): for an account that starts with usage U <= effective limit
\* L and has no other writer, at every moment the number of calls that have
\* returned allowed=true is min(K, L - U), K being the number of calls that
\* have returned a result, and the stored usage is U + min(K, L - U).  A call
\* whose write failed returns an error, not a result, and is not among the K.
C1_AtMostN ==
  \A id \in Ids :
    LET U == users0[id].usage_this_month
        L == EffectiveLimitOf(users0[id])
        K == Cardinality(ReturnedCalls(id))
    IN (users0[id].exists /\ U <= L) =>
         /\ Cardinality(AllowedCalls(id)) = MinOf(K, L - U)
         /\ users[id].usage_this_month = U + MinOf(K, L - U)

\* All NumCalls calls returned on u1; some were allowed and some denied.
C1_Witness ==
  /\ Cardinality(ReturnedCalls("u1")) = NumCalls
  /\ Cardinality(AllowedCalls("u1")) \in 1 .. (NumCalls - 1)
  /\ users0["u1"].usage_this_month <= EffectiveLimitOf(users0["u1"])

\* C2: a call that returns allowed=true leaves the account's usage at or
\* below the effective limit of the row it locked.
C2_AllowedWithinLimit ==
  [][\A c \in Sessions :
       (Returns(c) /\ rpcRes'[c].allowed) =>
          /\ tx[c].locked = users[tx[c].id]
          /\ users'[tx[c].id].usage_this_month <= EffectiveLimitOf(tx[c].locked)
          /\ rpcRes'[c].new_usage <= EffectiveLimitOf(tx[c].locked)]_vars

\* A call was allowed and took the last unit of the quota, while another
\* call on the same account is under way.
C2_Witness ==
  \E c \in Calls, d \in Calls :
    /\ c # d
    /\ rpcRes[c].kind = "row" /\ rpcRes[c].allowed
    /\ rpcRes[c].new_usage = EffectiveLimitOf(tx[c].locked)
    /\ tx[d].id = tx[c].id /\ tx[d].pc \in {"select", "check", "update"}

\* C3 (past-due override): a call on a past_due account is allowed exactly
\* when the usage it locked is below 5, whatever plan_limits_scrapes is; a
\* denied call returns the usage unchanged and changes no row; and the limit
\* the function enforces is the one getEffectiveLimit computes from the row.
C3_PastDue ==
  /\ [](\A c \in Sessions :
         /\ (rpcRes[c].kind = "row" /\ tx[c].locked.exists
               /\ tx[c].locked.subscription_status = "past_due") =>
              /\ rpcRes[c].allowed <=> (tx[c].locked.usage_this_month < 5)
              /\ ~rpcRes[c].allowed =>
                   rpcRes[c].new_usage = tx[c].locked.usage_this_month
         /\ (tx[c].pc = "update" \/ (tx[c].pc = "done" /\ tx[c].locked.exists
                                       /\ ~rpcRes[c].allowed)) =>
              tx[c].v_limit = getEffectiveLimit(tx[c].locked))
  /\ [][\A c \in Sessions :
          (Returns(c) /\ ~rpcRes'[c].allowed) => users' = users]_vars

\* The spec's example: plan PRO, limit 999999, past_due, usage 5, denied;
\* and a past_due account below 5 that was allowed.
C3_Witness ==
  /\ \E c \in Calls :
       /\ rpcRes[c].kind = "row" /\ ~rpcRes[c].allowed
       /\ tx[c].locked = Row(5, 999999, "PRO", "past_due", TRUE)
       /\ users[tx[c].id].usage_this_month = 5
  /\ \E c \in Calls :
       /\ rpcRes[c].kind = "row" /\ rpcRes[c].allowed
       /\ tx[c].locked.subscription_status = "past_due"
       /\ tx[c].locked.usage_this_month = 4

\* C5: a call on an id with no row returns the result row
\* (false, 0, 0, FREE, none), not an error, and creates or changes no row.
C5_MissingAccount ==
  [][\A c \in Sessions :
       (tx[c].pc = "select" /\ tx'[c].pc # "select" /\ ~users[tx[c].id].exists) =>
          /\ rpcRes'[c] = [kind |-> "row", allowed |-> FALSE, new_usage |-> 0,
                           effective_limit |-> 0, plan |-> "FREE",
                           subscription_status |-> "none"]
          /\ users' = users]_vars

\* A call on the id without a row has returned.
C5_Witness ==
  \E c \in Calls :
    /\ tx[c].id = "ghost" /\ tx[c].pc = "done"
    /\ rpcRes[c].kind = "row" /\ ~rpcRes[c].allowed
    /\ ~users["ghost"].exists

\* C6 (reference function): a call that locked a row with usage u and
\* effective limit e returns (false, u) and leaves the table as it is when
\* u >= e, and returns (true, u + 1) and stores exactly u + 1 otherwise.
C6_Reference ==
  [][\A c \in Sessions :
       (Returns(c) /\ users[tx[c].id].exists) =>
          LET id == tx[c].id
              u == users[id].usage_this_month
              e == EffectiveLimitOf(users[id])
          IN IF u >= e
             THEN /\ ~rpcRes'[c].allowed
                  /\ rpcRes'[c].new_usage = u
                  /\ users' = users
             ELSE /\ rpcRes'[c].allowed
                  /\ rpcRes'[c].new_usage = u + 1
                  /\ users' = [users EXCEPT ![id].usage_this_month = u + 1]]_vars

\* Both branches have been taken: one call was denied, one was allowed.
C6_Witness ==
  /\ \E c \in Calls : rpcRes[c].kind = "row" /\ rpcRes[c].allowed
                        /\ tx[c].locked.exists
  /\ \E c \in Calls : rpcRes[c].kind = "row" /\ ~rpcRes[c].allowed
                        /\ tx[c].locked.exists

\* C7 (no double charge on failure): the step in which a call's write fails
\* reports an error and leaves the users table as it was, and the table every
\* process reads never holds an increment that no allowed call accounts for.
C7_NoPartialIncrement ==
  /\ [](\A id \in Ids :
          users[id] =
            [users0[id] EXCEPT !.usage_this_month =
                @ + Cardinality(AllowedCalls(id))])
  /\ [][\A c \in Sessions :
          (tx[c].pc = "update" /\ tx'[c].pc = "failed") =>
             /\ users' = users
             /\ rpcRes'[c].kind = "error"
             /\ rowLock'[tx[c].id] = 0]_vars

\* A call's write failed after it had locked the row, and a later call on the
\* same account was allowed.
C7_Witness ==
  \E c \in Calls, d \in Calls :
    /\ tx[c].pc = "failed" /\ tx[c].locked.exists /\ rpcRes[c].kind = "error"
    /\ tx[d].id = tx[c].id /\ rpcRes[d].kind = "row" /\ rpcRes[d].allowed
    /\ tx[d].locked = tx[c].locked

\* C4: the effective_limit a call returns is the limit that was enforced on
\* the row it locked (5 for a past_due account, plan_limits_scrapes
\* otherwise), when allowed and when denied, and the export endpoint reports
\* that value as usage.limit.
C4_EffectiveLimitReported ==
  /\ \A r \in Sessions :
       (rpcRes[r].kind = "row" /\ tx[r].locked.exists) =>
          rpcRes[r].effective_limit = EffectiveLimitOf(tx[r].locked)
  /\ \A r \in Reqs :
       (resp[r].hasUsage /\ tx[r].locked.exists) =>
          resp[r].limit = EffectiveLimitOf(tx[r].locked)

\* C8: a request calls the RPC at most once; when the RPC resolves to an
\* error or to no rows the request is answered 500 without a usage object,
\* createSpreadsheet is never called and no activity is recorded.
C8_FailedRpcIsFatal ==
  \A r \in Reqs :
    /\ effects[r].rpcCalls <= 1
    /\ rpcRes[r].kind \in {"error", "empty"} =>
         /\ pc[r] \in {"await_rpc", "done"}
         /\ effects[r].rpcCalls = 1
         /\ effects[r].createCalls = 0
         /\ effects[r].activities = 0
         /\ effects[r].invalidations = 0
         /\ pc[r] = "done" => resp[r] = [NoResp EXCEPT !.status = 500]

\* Requests were answered after a write failure inside the function, and
\* after an RPC that resolved to no rows.
C8_Witness ==
  /\ \E r \in Reqs :
       /\ pc[r] = "done" /\ rpcRes[r].kind = "error" /\ tx[r].pc = "failed"
       /\ resp[r].status = 500
  /\ \E r \in Reqs :
       /\ pc[r] = "done" /\ rpcRes[r].kind = "empty" /\ resp[r].status = 500

\* C9: when the RPC returns allowed=false the request is answered 403 with
\* usage { current, limit }: the usage and the effective limit of the row the
\* call locked (0 and 0 for an id without a row); no spreadsheet is created,
\* no activity is recorded and the cache is not invalidated.
C9_DeniedIs403 ==
  \A r \in Reqs :
    (rpcRes[r].kind = "row" /\ ~rpcRes[r].allowed) =>
       /\ pc[r] \in {"await_rpc", "done"}
       /\ effects[r].createCalls = 0
       /\ effects[r].activities = 0
       /\ effects[r].invalidations = 0
       /\ pc[r] = "done" =>
            /\ resp[r].status = 403 /\ resp[r].hasUsage
            /\ resp[r].current = tx[r].locked.usage_this_month
            /\ resp[r].limit =
                 (IF tx[r].locked.exists THEN EffectiveLimitOf(tx[r].locked) ELSE 0)

\* A past_due PRO account over the reduced limit was answered 403 with limit 5.
C9_Witness ==
  \E r \in Reqs :
    /\ pc[r] = "done" /\ resp[r].status = 403
    /\ tx[r].locked.exists /\ tx[r].locked.plan = "PRO"
    /\ resp[r].limit = 5 /\ resp[r].current = 6

\* The positions of the export handler after the cache invalidation.
PastInvalidate ==
  {"token", "create", "refresh", "refresh_invalidate", "create_retry",
   "activity", "done"}

\* C10: once the RPC has returned allowed=true, the request looks up the
\* Google token, creates a spreadsheet or sends a response only after it has
\* called invalidateUserCache, and that call is for the account the RPC
\* charged.
C10_InvalidateFirst ==
  /\ [](\A r \in Reqs :
          (rpcRes[r].kind = "row" /\ rpcRes[r].allowed) =>
             /\ tx[r].id = reqUserId[r]
             /\ (pc[r] \in PastInvalidate \/ effects[r].createCalls > 0
                   \/ resp[r].status # 0) => effects[r].invalidations >= 1)
  /\ [][\A r \in Reqs :
          (pc[r] = "invalidate" /\ pc'[r] # "invalidate") =>
             /\ pc'[r] = "token"
             /\ cache' \in {cache, [cache EXCEPT ![tx[r].id] = NoRow]}]_vars

\* An allowed request was answered 200 after one invalidation that removed
\* the profile its own hydration had cached.
C10_Witness ==
  \E r \in Reqs :
    /\ pc[r] = "done" /\ resp[r].status = 200
    /\ rpcRes[r].allowed /\ effects[r].invalidations = 1
    /\ ~cache[reqUserId[r]].exists

\* The steps in which request r answers, and in which it calls
\* invalidateUserCache.
Answers(r) == pc[r] # "done" /\ pc'[r] = "done"
Invalidates(r) == effects'[r].invalidations = effects[r].invalidations + 1

\* C11 (invalidation completeness): when a webhook delivery, a settings
\* update or an account deletion that has written the users row answers, and
\* Redis is connected and no DEL of the request raised, getCachedUser reports
\* the account absent.
C11_InvalidationComplete ==
  [][\A r \in Reqs :
       ( /\ Answers(r)
         /\ pc[r] \in {"webhook_invalidate", "settings_invalidate", "delete_auth"}
         /\ redisUp
         /\ effects'[r].cacheErrors = 0 )
       => ~cache'[reqUserId[r]].exists]_vars

\* C12 (invalidate after every write): no request answers while it is dirty,
\* that is, after a durable write of the users row that no call of
\* invalidateUserCache has followed.
C12_InvalidateAfterEveryWrite ==
  [][\A r \in Reqs : Answers(r) => ~effects'[r].dirty]_vars

\* C13 (degraded cache): while Redis is not connected, getCachedUser reports
\* every account absent and setCachedUser and invalidateUserCache change
\* nothing; requireAuth then always goes to the users table, a read that
\* finds the row attaches exactly that row, the only failure of the read is
\* the 404, and the request reaches its handler with that row and the cache
\* untouched.
C13_DegradedCache ==
  /\ [](~redisUp =>
          \A id \in Ids :
            /\ getCachedUser(id, TRUE) = NoRow
            /\ setCachedUser(id, users[id], TRUE) = cache
            /\ invalidateUserCache(id, TRUE) = cache)
  /\ [][\A r \in Reqs :
          /\ (~redisUp /\ pc[r] = "new" /\ pc'[r] \in {"handler", "auth_db"})
               => pc'[r] = "auth_db"
          /\ (pc[r] = "auth_db" /\ pc'[r] = "auth_setcache")
               => reqUser'[r] = users[reqUserId[r]] /\ reqUser'[r].exists
          /\ (pc[r] = "auth_db" /\ Answers(r)) => resp'[r].status = 404
          /\ (~redisUp /\ pc[r] = "auth_setcache" /\ pc'[r] # "auth_setcache")
               => /\ pc'[r] = "handler"
                  /\ reqUser'[r] = reqUser[r]
                  /\ cache' = cache]_vars

\* Redis is down, the cache holds nothing, the account's row is no longer
\* the initial one, and a request (not the first) has reached its handler
\* with the current row.
C13_Witness ==
  \E r \in Reqs :
    /\ ~redisUp /\ pc[r] = "handler" /\ arrivals >= 2
    /\ \A id \in Ids : ~cache[id].exists
    /\ users["u1"] # users0["u1"]
    /\ reqUser[r] = users["u1"]

\* C14 (idempotent invalidation): a call of invalidateUserCache whose DEL is
\* delivered leaves the account's entry absent and every other entry as it
\* was, changes nothing when the entry was absent already, is followed by the
\* handler's success response, and a second call right after it would leave
\* the cache as the first left it.
C14_IdempotentInvalidate ==
  [][\A r \in Reqs :
       (Invalidates(r) /\ redisUp /\ effects'[r].cacheErrors = effects[r].cacheErrors)
       => /\ cache' = [cache EXCEPT ![reqUserId[r]] = NoRow]
          /\ ~cache[reqUserId[r]].exists => cache' = cache
          /\ invalidateUserCache(reqUserId[r], TRUE)' = cache'
          /\ resp'[r].status = 200]_vars

\* Both slots hold a request that has invalidated the account's entry and
\* answered, the second of them on an entry the first had removed.
C14_Witness ==
  /\ redisUp
  /\ \A r \in Reqs :
       pc[r] = "done" /\ reqUserId[r] = "u1" /\ effects[r].invalidations = 1
                      /\ effects[r].cacheErrors = 0
  /\ ~cache["u1"].exists

\* The limiter whose middleware runs in a step of request r, and the steps in
\* which a limiter's middleware runs and counts (/health is skipped).
LimiterOf(r) == IF pc[r] = "arrive" THEN "gen" ELSE req[r].path
LimiterStep(r) ==
  /\ pc'[r] # pc[r]
  /\ \/ pc[r] = "arrive" /\ req[r].path # "health"
     \/ pc[r] = "scoped" /\ req[r].path \in {"auth", "scrape", "sheets"}

\* The counter of key k that process p's limiters use.
Counter(p, k) == IF redisClient THEN rlStore[k] ELSE memStore[p][k]
CounterNext(p, k) == IF redisClient THEN rlStore'[k] ELSE memStore'[p][k]

\* C15 (scope isolation): a limiter's middleware changes no counter of
\* another limiter, in Redis or in any process's memory; the auth limiter
\* increments the counter of the peer address by one, lets the request
\* through while the count is at most 20 and answers 429 from the 21st on.
C15_ScopeIsolation ==
  [][\A r \in Reqs :
       LimiterStep(r) =>
         LET l == LimiterOf(r)
             k == <<"auth", <<"raw", req[r].ip>>>>
         IN /\ \A j \in RLKeys :
                 j[1] # l => /\ rlStore'[j] = rlStore[j]
                             /\ \A p \in Procs : memStore'[p][j] = memStore[p][j]
            /\ (l = "auth" /\ ~StoreFails) =>
                 /\ CounterNext(r, k) = Counter(r, k) + 1
                 /\ CounterNext(r, k) <= AUTH_MAX => pc'[r] = "handler"
                 /\ CounterNext(r, k) > AUTH_MAX => resp'[r].status = 429 /\ pc'[r] = "done"]_vars

\* The 21st attempt of an address in the window is answered 429 by the auth
\* limiter after the general limiter, whose counter for the address has only
\* this window's requests, let it through.
C15_Witness ==
  \E r \in Reqs :
    /\ req[r].path = "auth" /\ resp[r].status = 429 /\ stageLog[r] = <<"gen">>
    /\ Counter(r, <<"auth", <<"raw", req[r].ip>>>>) = AUTH_MAX + 1
    /\ Counter(r, <<"gen", <<"ip", req[r].ip>>>>) <= MaxArrivals

\* C16 as stated: with Redis as the store, no key has let more requests
\* through than its limiter's max, and a request answered 429 has ended
\* where the limiter stopped it.
C16_AllowedWithinMax ==
  /\ redisClient => \A k \in RLKeys : passed[k].through <= Max(k[1])
  /\ \A r \in Reqs :
       resp[r].status = 429 =>
         pc[r] = "done" /\ \A i \in 1 .. Len(stageLog[r]) : stageLog[r][i] \in Limiters

\* C16 (amended): with Redis as the store, for every key the requests let
\* through, less those the auth limiter took back off the counter because
\* they succeeded, never exceed the limiter's max, whichever process served
\* them; a limiter lets a request through only with a count of at most max,
\* and answers 429 on a higher count, after which no stage runs.
C16_CountedWithinMax ==
  /\ [](redisClient =>
          \A k \in RLKeys : passed[k].through - passed[k].exempt <= Max(k[1]))
  /\ [](\A r \in Reqs :
          resp[r].status = 429 =>
            pc[r] = "done" /\ \A i \in 1 .. Len(stageLog[r]) : stageLog[r][i] \in Limiters)
  /\ [][\A r \in Reqs :
          (LimiterStep(r) /\ redisClient /\ redisUp) =>
            LET l == LimiterOf(r)
                k == LimiterKey(l, r)
            IN /\ rlStore'[k] = rlStore[k] + 1
               /\ IF rlStore'[k] <= Max(l)
                  THEN pc'[r] \in {"scoped", "new", "handler"}
                  ELSE /\ resp'[r].status = 429 /\ pc'[r] = "done"
                       /\ stageLog'[r] = stageLog[r]
                       /\ passed' = passed]_vars

\* The scrape limiter has let through exactly its max for an address and
\* has answered 429 to the next request of that address.
C16_Witness ==
  /\ redisClient
  /\ \E r \in Reqs :
       LET k == <<"scrape", <<"ip", req[r].ip>>>>
       IN /\ req[r].path = "scrape" /\ resp[r].status = 429
          /\ passed[k].through = SCRAPE_MAX
          /\ rlStore[k] = SCRAPE_MAX + 1

\* C17 (memory fallback): whenever a limiter's middleware runs while Redis
\* is not connected, the process's in-memory counter of the key is
\* incremented and the request is let through or answered 429 by that count.
C17_MemoryFallback ==
  [][\A r \in Reqs :
       (LimiterStep(r) /\ ~redisUp) =>
         LET k == LimiterKey(LimiterOf(r), r)
         IN /\ memStore'[r][k] = memStore[r][k] + 1
            /\ resp'[r].status \in {0, 429}]_vars

\* C18 (identity resolution): the general, scrape and sheets limiters charge
\* the counter of the principal when the request carries a valid credential,
\* and the counter of the network identity otherwise.
C18_KeyedByPrincipal ==
  [][\A r \in Reqs :
       (LimiterStep(r) /\ LimiterOf(r) # "auth" /\ ~StoreFails) =>
         LET identity == IF req[r].cred # "none" THEN <<"user", req[r].cred>>
                         ELSE <<"ip", getClientIp(req[r])>>
             k == <<LimiterOf(r), identity>>
         IN CounterNext(r, k) = Counter(r, k) + 1]_vars

\* C19 (successful attempts are exempt): the auth limiter counts an attempt
\* by one when it arrives; when the response of a counted attempt has been
\* sent and the store takes the command, the counter goes back by one if the
\* status is below 400 and stays if not.
C19_SuccessExempt ==
  [][\A r \in Reqs :
       LET k == <<"auth", <<"raw", req[r].ip>>>>
       IN /\ (LimiterStep(r) /\ LimiterOf(r) = "auth" /\ ~StoreFails)
               => CounterNext(r, k) = Counter(r, k) + 1
          /\ ( /\ pc[r] = "done" /\ pc'[r] = "idle" /\ req[r].path = "auth"
               /\ stageLog[r] # <<>> /\ stageLog[r][Len(stageLog[r])] # "gen"
               /\ ~StoreFails )
               => CounterNext(r, k) = IF resp[r].status < 400 THEN Counter(r, k) - 1
                                                          ELSE Counter(r, k)]_vars

\* An address whose counter started RlHeadroom short of 20 has made a
\* successful attempt, taken back, and then as many failed attempts as the
\* headroom: the counter is at 20 with one more request let through.
C19_Witness ==
  \E r \in Reqs :
    LET k == <<"auth", <<"raw", "a">>>>
    IN /\ passed[k].exempt >= 1
       /\ Counter(r, k) = AUTH_MAX
       /\ passed[k].through = AUTH_MAX + 1

\* The stages of a protected route, in order.
Protected(q) == q.path \in {"scrape", "sheets", "user"}
StagesOf(q) ==
  <<"gen">> \o (IF q.path = "user" THEN <<>> ELSE <<q.path>>)
            \o <<"verify", "hydrate", "execute">>
IsPrefix(s, t) ==
  Len(s) <= Len(t) /\ \A i \in 1 .. Len(s) : s[i] = t[i]

\* C20 (pipeline order): the stages a request of a protected route has run
\* are always an initial part of: general limiter, the mount point's limiter,
\* credential verified, profile hydrated, handler; the handler runs with the
\* verified principal's profile attached; once the request is answered no
\* further stage runs for it.
C20_PipelineOrder ==
  /\ [](\A r \in Reqs :
          (pc[r] # "idle" /\ Protected(req[r])) =>
            /\ IsPrefix(stageLog[r], StagesOf(req[r]))
            /\ stageLog[r] = StagesOf(req[r]) =>
                 reqUser[r].exists /\ reqUserId[r] = req[r].cred)
  /\ [][\A r \in Reqs :
          pc[r] = "done" => stageLog'[r] = stageLog[r] \/ pc'[r] = "idle"]_vars

\* A scrape request has run all five stages, its profile read from the
\* users table, while the other slot's request was stopped by a limiter.
C20_Witness ==
  \E r, o \in Reqs :
    /\ req[r].path = "scrape" /\ stageLog[r] = StagesOf(req[r])
    /\ resp[r].status = 200 /\ reqUser[r] = users["u1"]
    /\ resp[o].status = 429 /\ Protected(req[o])

\* A request of /api/user in flight, and the credentials the claims name: no
\* Authorization header, a header that is not a Bearer header, an empty
\* bearer token, a token the identity provider rejects, a token that
\* resolves to no user.
InFlight(r) == pc[r] # "idle" /\ req[r].path = "user"
BadCredential(q) ==
  \/ q.authorization.scheme = "none"
  \/ q.authorization.scheme # "Bearer"
  \/ q.authorization.token = ""
  \/ q.cred = "none"
  \/ q.cred = "nouser"

\* C21 (unauthorized): a request without a usable credential is answered 401
\* by requireAuth's first step: next() is not called (no later stage runs,
\* req.user stays unset), and the request never reaches the cache lookup or
\* the read of the users table.
C21_Unauthorized ==
  /\ [](\A r \in Reqs :
          (InFlight(r) /\ BadCredential(req[r])) =>
            /\ pc[r] \in {"new", "done"}
            /\ pc[r] = "done" => resp[r].status = 401
            /\ ~reqUser[r].exists /\ stageLog[r] = <<>>)
  /\ [][\A r \in Reqs :
          (InFlight(r) /\ BadCredential(req[r]) /\ pc'[r] # pc[r]) =>
            cache' = cache /\ users' = users]_vars

\* One request was rejected for its header and one for what the identity
\* provider said about its token.
C21_Witness ==
  \E r, o \in Reqs :
    /\ InFlight(r) /\ InFlight(o)
    /\ resp[r].status = 401 /\ req[r].authorization.scheme = "Basic"
    /\ resp[o].status = 401 /\ req[o].cred = "nouser"

\* A request whose token the identity provider resolved to a user.
Verified(q) ==
  /\ q.authorization.scheme = "Bearer" /\ q.authorization.token # ""
  /\ q.cred \notin {"none", "nouser", "throws"}

C23_ReadThrough ==
  /\ [](\A r \in Reqs :
          InFlight(r) =>
            /\ stageLog[r] \in { <<>>, <<"verify">>, <<"verify", "hydrate">>,
                                 <<"verify", "hydrate", "execute">> }
            /\ pc[r] = "handler" =>
                 reqUser[r].exists /\ reqUserId[r] = req[r].cred)
  /\ [][\A r \in Reqs :
          (InFlight(r) /\ pc'[r] # pc[r]) =>
            LET id == req[r].cred
            IN /\ (pc[r] = "new" /\ pc'[r] = "handler") =>
                    /\ cache[id].exists /\ reqUser'[r] = cache[id]
                    /\ cache' = cache
                    /\ stageLog'[r] = <<"verify", "hydrate">>
               /\ (pc[r] = "new" /\ pc'[r] \notin {"handler", "done"}) =>
                    pc'[r] = "auth_db" /\ ~reqUser'[r].exists
               /\ (pc[r] = "auth_db" /\ pc'[r] # "done") =>
                    /\ pc'[r] = "auth_setcache"
                    /\ reqUser'[r] = users[id] /\ users[id].exists
                    /\ cache' = cache
               /\ pc[r] = "auth_setcache" =>
                    /\ pc'[r] = "handler" /\ reqUser' = reqUser
                    /\ \/ cache' = [cache EXCEPT ![id] = reqUser[r]]
                       \/ cache' = cache
                    /\ ~redisUp => cache' = cache
                    /\ stageLog'[r] = <<"verify", "hydrate">>
               /\ pc'[r] = "handler" => pc[r] \in {"new", "auth_setcache"}]_vars

\* One request was hydrated from the users table and cached the row; the
\* next was hydrated from that entry.
C23_Witness ==
  \E r, o \in Reqs :
    /\ r # o /\ InFlight(r) /\ InFlight(o)
    /\ pc[r] = "done" /\ stageLog[r] = <<"verify", "hydrate", "execute">>
    /\ pc[o] = "handler" /\ reqUser[o] = cache["u1"] /\ cache["u1"] = users["u1"]
    /\ arrivals = 2

\* The response of the health probe in slot r.
Probe(r) == pc[r] = "done" /\ req[r].path = "health" /\ resp[r].status # 503

\* C24 (health probe): the probe reports Redis and the users table each by
\* its own state; the overall status is ok when both are up, degraded when
\* Redis alone is down and unhealthy exactly when the users table cannot be
\* read.
C24_HealthStatus ==
  \A r \in Reqs :
    Probe(r) =>
      /\ resp[r].redis \in {"ok", "error"} /\ resp[r].supabase \in {"ok", "error"}
      /\ (resp[r].redis = "ok" /\ resp[r].supabase = "ok") => resp[r].health = "ok"
      /\ (resp[r].redis = "error" /\ resp[r].supabase = "ok")
            => resp[r].health = "degraded"
      /\ resp[r].supabase = "error" <=> resp[r].health = "unhealthy"

\* C30 (no stale re-install): when setCachedUser of a hydration changes the
\* account's entry while no mutation of the account is between its write and
\* its invalidateUserCache, the entry it installs is the current users row.
C30_NoStaleReinstall ==
  [][\A r \in Reqs :
       LET id == reqUserId[r]
       IN ( /\ InFlight(r) /\ pc[r] = "auth_setcache" /\ pc'[r] = "handler"
            /\ cache'[id] # cache[id]
            /\ \A o \in Reqs : pc[o] # "settings_invalidate" )
          => cache'[id] = users[id]]_vars

\* The RPC of request r has committed an increment.
Charged(r) == rpcRes[r].kind = "row" /\ rpcRes[r].allowed

\* C25 (a committed increment is final): the users table's usage changes
\* only by the commit of an allowed RPC, by +1; once a request's increment
\* is committed the usage stays at or above the value it produced through
\* everything the request does afterwards, and the request calls the RPC
\* once, so it charges exactly one unit whatever its response.
C25_IncrementFinal ==
  /\ [](\A r \in Reqs :
          Charged(r) =>
            /\ users[tx[r].id].usage_this_month >= rpcRes[r].new_usage
            /\ effects[r].rpcCalls = 1)
  /\ [][\A id \in Ids :
          \/ users'[id].usage_this_month = users[id].usage_this_month
          \/ /\ users'[id].usage_this_month = users[id].usage_this_month + 1
             /\ \E r \in Reqs : /\ tx[r].id = id
                                /\ tx[r].pc = "return" /\ tx'[r].pc = "done"
                                /\ rpcRes'[r].new_usage = users'[id].usage_this_month]_vars

\* A request whose increment was committed ended in an error response after
\* a failed token refresh, and the account is charged the one unit.
C25_Witness ==
  \E r \in Reqs :
    /\ pc[r] = "done" /\ Charged(r) /\ resp[r].status = 401
    /\ effects[r].createCalls = 1
    /\ users["u1"].usage_this_month = users0["u1"].usage_this_month + 1

\* The steps that write usage_this_month of account id by design: the
\* commit of the RPC (under the row lock), and a Stripe event's update.
LedgerCommit(id) ==
  \E r \in Reqs : /\ tx[r].id = id /\ tx[r].pc = "return" /\ tx'[r].pc = "done"
                  /\ rowLock[id] = r
                  /\ users'[id].usage_this_month = users[id].usage_this_month + 1
EventReset(id) ==
  \E r \in Reqs : /\ pc[r] = "new" /\ pc'[r] = "webhook_invalidate"
                  /\ reqUserId'[r] = id
                  /\ users'[id].usage_this_month = 0
\* The lazy reset of a scrape request writes the row of account id.
LazyReset(id) ==
  \E r \in Reqs : /\ pc[r] = "handler" /\ pc'[r] = "scrape_check"
                  /\ reqUserId[r] = id /\ users'[id] # users[id]

\* C26 (no unlocked read-modify-write): usage_this_month of an existing row
\* changes only by the RPC's commit under the row lock, by a Stripe event's
\* update, or by the rollover reset, and the reset is written only when the
\* row in the table is due for it: no write is decided by a copy of the row
\* that the table no longer matches.
C26_NoReadModifyWrite ==
  [][\A id \in Ids :
       (users[id].exists /\ users'[id].exists
          /\ users'[id].usage_this_month # users[id].usage_this_month) =>
         \/ LedgerCommit(id)
         \/ EventReset(id)
         \/ LazyReset(id) /\ ResetDue(users[id])]_vars

C28_DurableDecides ==
  [][\A r \in Reqs :
       LET row == users[reqUserId[r]]
       IN /\ (pc[r] = "scrape_check" /\ pc'[r] = "done" /\ row.exists) =>
               (resp'[r].status = 403
                  <=> row.usage_this_month >= getEffectiveLimit(row))
          /\ (tx[r].pc = "check" /\ tx'[r].pc # "check") =>
               (tx'[r].pc = "done"
                  <=> users[tx[r].id].usage_this_month
                        >= getEffectiveLimit(users[tx[r].id]))]_vars

\* The row of account id was due at the start and has been reset by a scrape
\* request since: no Stripe event has touched its plan or status.
LazilyReset(id) ==
  /\ users[id].exists /\ users0[id].billing_date = "past"
  /\ users[id].billing_date = "now"
  /\ users[id].plan = users0[id].plan
  /\ users[id].subscription_status = users0[id].subscription_status

\* C29 (one reset per rollover): once resetMonthlyUsageIfNeeded has reset the
\* row of an account (usage 0, billing_date of the current month), no scrape
\* request resets it again, so the usage counted since the reset is never
\* erased.
C29_ResetOnce ==
  [][\A id \in Ids : LazilyReset(id) => ~LazyReset(id)]_vars

\* Request r has written the users row and called invalidateUserCache after
\* it, has answered, and no other request is in flight.
MutationOver(r) ==
  /\ pc[r] = "done"
  /\ effects[r].writes >= 1 /\ effects[r].invalidations >= 1
  /\ \A s \in Reqs \ {r} : pc[s] = "idle"

\* C31 (no lost invalidation): once a request that has mutated an account
\* has called invalidateUserCache and answered, then, whenever Redis is
\* connected (again), getCachedUser returns nothing for the account or the
\* row as the mutation left it, also when Redis was not connected or the
\* DEL raised at the time of the call.
C31_NoLostInvalidation ==
  \A r \in Reqs :
    (MutationOver(r) /\ redisUp) =>
      \/ getCachedUser(reqUserId[r], TRUE) = NoRow
      \/ getCachedUser(reqUserId[r], TRUE) = users[reqUserId[r]]

\* C32 (deletion invalidates on every exit): every answer of DELETE
\* /delete-account that is given after the users row has been deleted comes
\* after a call of invalidateUserCache for the account, the 500 after a
\* failed deletion of the identity-provider user included.
C32_DeletionInvalidates ==
  [][\A r \in Reqs :
       (pc[r] = "delete_auth" /\ Answers(r)) => effects'[r].invalidations >= 1]_vars

\* The step is a step of the transaction of call c.
TxStep(c) == tx'[c] # tx[c]

\* The result the function computes from a row of the table.
ResultOf(row) ==
  IF ~row.exists THEN NotFoundResult
  ELSE IF row.usage_this_month >= getEffectiveLimit(row)
  THEN ReturnQuery(FALSE, row.usage_this_month, getEffectiveLimit(row),
                   row.plan, row.subscription_status)
  ELSE ReturnQuery(TRUE, row.usage_this_month + 1, row.plan_limits_scrapes,
                   row.plan, row.subscription_status)

\* C33 (independence of accounts): a step of a call on account A changes no
\* row but A's and takes or releases no lock but A's; the result a call
\* returns is the one computed from the row of its own account as the call
\* found it; and a call that waits for its row lock can take it whenever
\* that lock is free, whoever holds the locks of other rows.
C33_Independent ==
  /\ [](\A c \in FairCallers :
          (tx[c].pc = "select" /\ users[tx[c].id].exists
             /\ rowLock[tx[c].id] = 0) => ENABLED TxSelectForUpdate(c))
  /\ [][\A c \in FairCallers :
          /\ TxStep(c) =>
               \A b \in Ids \ {tx'[c].id} :
                 users'[b] = users[b] /\ rowLock'[b] = rowLock[b]
          /\ Returns(c) =>
               rpcRes'[c] = ResultOf(IF tx[c].locked.exists THEN tx[c].locked
                                     ELSE users[tx[c].id])
          /\ (tx[c].pc = "select" /\ tx'[c].pc = "check") =>
               tx'[c].locked = users[tx[c].id]]_vars

\* Calls hold the row locks of both accounts at the same time, and a call on
\* one account has returned while the lock of the other account was held.
C33_Witness ==
  \E c, d, e \in FairCallers :
    /\ rowLock["u1"] = c /\ rowLock["u2"] = d
    /\ tx[e].id = "u2" /\ rpcRes[e].kind = "row" /\ tx[e].locked.exists

\* C34 (termination): under fair scheduling every call that has been sent
\* ends, with a result or with a failure, and holds no row lock then; a call
\* holds a lock only between its SELECT ... FOR UPDATE and its end.
C34_Terminates ==
  /\ \A c \in FairCallers :
       (tx[c].pc = "select") ~>
         (tx[c].pc \in {"done", "failed"} /\ rpcRes[c].kind # "none"
            /\ \A id \in Ids : rowLock[id] # c)
  /\ [](\A c \in Calls, id \in Ids :
          rowLock[id] = c => tx[c].pc \in {"check", "update", "return"} /\ tx[c].id = id)

\* All calls were on the same account and all have ended: one was allowed,
\* one was denied, one failed on its write, and no lock is held.
C34_Witness ==
  /\ \A c \in FairCallers : tx[c].pc \in {"done", "failed"} /\ tx[c].id = "u1"
  /\ \E c \in Calls : rpcRes[c].kind = "row" /\ rpcRes[c].allowed
  /\ \E c \in Calls : rpcRes[c].kind = "row" /\ ~rpcRes[c].allowed
  /\ \E c \in Calls : rpcRes[c].kind = "error"
  /\ \A id \in Ids : rowLock[id] = 0

\* The step in which the webhook handler of request r runs the case of a
\* signed event of the given type, up to its update or its acknowledgement.
Case(r, type) ==
  /\ pc[r] = "new" /\ pc'[r] # "new"
  /\ req[r].path = "webhook" /\ req[r].signed
  /\ req[r].event.type = type
\* The handler threw in the step.
Threw(r) == stageLog'[r] # stageLog[r]
\* The step changes nothing of the table and of the cache, and acknowledges.
Ignored(r) ==
  /\ users' = users /\ cache' = cache
  /\ pc'[r] = "done" /\ resp'[r].status = 200
\* The step updates the row of the event's account to row, if there is one,
\* writes no other row, and goes on to invalidateUserCache.
Updated(r, row) ==
  /\ users' = [users EXCEPT ![req[r].account] = IF @.exists THEN row ELSE @]
  /\ cache' = cache
  /\ pc'[r] = "webhook_invalidate" /\ reqUserId'[r] = req[r].account
\* The handler's call of invalidateUserCache, followed by 200 received.
Invalidated(r) ==
  /\ Invalidates(r)
  /\ (redisUp /\ effects'[r].cacheErrors = effects[r].cacheErrors)
       => ~cache'[reqUserId[r]].exists
  /\ users' = users
  /\ pc'[r] = "done" /\ resp'[r].status = 200
\* The RPC denies in the step in which it checks the limit of call c.
Checks(c) == tx[c].pc = "check" /\ tx'[c].pc # "check"
Denies(c) ==
  /\ tx'[c].pc = "done" /\ rpcRes'[c].kind = "row" /\ ~rpcRes'[c].allowed
  /\ users' = users

\* C35 (plan and limit match): in every row plan_limits_scrapes is the
\* nominal quota of the row's plan, after account creation and after every
\* webhook event.
C35_PlanLimitMatch ==
  \A id \in Ids :
    users[id].exists =>
      /\ users[id].plan \in Plans
      /\ users[id].plan_limits_scrapes = PlanLimit(users[id].plan)

\* The first account has been moved to another plan by a webhook event, and
\* the account that signed in during the behaviour has been upgraded.
C35_Witness ==
  /\ users["u1"].exists /\ users["u1"].plan # users0["u1"].plan
  /\ users["u2"].exists /\ users["u2"].plan = "STARTER"

\* C36 (status enum): in every row subscription_status is one of none,
\* active, past_due, canceled.
C36_StatusEnum ==
  \A id \in Ids : users[id].exists => users[id].subscription_status \in Statuses

\* C37 (checkout completed): a signed checkout.session.completed event that
\* names an account and a configured price sets the row's plan and limit to
\* the price's, the status to active and the usage to 0, writes nothing
\* else, and then calls invalidateUserCache and answers 200, unless the
\* handler threw; without an account named or with an unknown price nothing
\* of the table or the cache changes.
C37_CheckoutCompleted ==
  [][\A r \in Reqs :
       LET ev == req[r].event
           row == users[req[r].account]
       IN /\ (Case(r, "checkout.session.completed") /\ ~Threw(r)) =>
               IF ev.named /\ ev.plan \in {"STARTER", "PRO"}
               THEN Updated(r, [row EXCEPT !.plan = ev.plan,
                                           !.plan_limits_scrapes = PlanLimit(ev.plan),
                                           !.subscription_status = "active",
                                           !.usage_this_month = 0,
                                           !.billing_date = "now"])
               ELSE Ignored(r)
          /\ (pc[r] = "webhook_invalidate" /\ pc'[r] # pc[r]
                /\ req[r].event.type = "checkout.session.completed")
               => Invalidated(r)]_vars

\* A checkout for PRO has upgraded the FREE account, reset its usage, removed
\* its cached profile and been acknowledged.
C37_Witness ==
  \E r \in Reqs :
    /\ pc[r] = "done" /\ resp[r].status = 200
    /\ req[r].path = "webhook" /\ req[r].event.type = "checkout.session.completed"
    /\ req[r].event.plan = "PRO" /\ effects[r].invalidations = 1
    /\ users0["u1"] = Row(5, FREE_LIMIT, "FREE", "none", TRUE)
    /\ users["u1"] = Row(0, PRO_LIMIT, "PRO", "active", TRUE)
    /\ ~cache["u1"].exists

\* C38 (payment failed): a signed invoice.payment_failed event whose
\* subscription belongs to an account sets the row's subscription_status to
\* past_due and nothing else, then invalidates the cache; an event that
\* names no account changes nothing; and a call of the RPC on a past_due row
\* is denied exactly when the usage has reached 5.
C38_PaymentFailed ==
  [][/\ \A r \in Reqs :
          /\ (Case(r, "invoice.payment_failed") /\ ~Threw(r)) =>
               IF req[r].event.named
               THEN Updated(r, [users[req[r].account] EXCEPT
                                  !.subscription_status = "past_due"])
               ELSE Ignored(r)
          /\ (pc[r] = "webhook_invalidate" /\ pc'[r] # pc[r]
                /\ req[r].event.type = "invoice.payment_failed")
               => Invalidated(r)
     /\ \A c \in Consumers :
          (Checks(c) /\ users[tx[c].id].subscription_status = "past_due") =>
            (Denies(c) <=> users[tx[c].id].usage_this_month >= 5)]_vars

\* The PRO account at usage 4 went past_due, one more call was allowed, and
\* the next call was denied with the effective limit 5.
C38_Witness ==
  /\ users0["u1"] = Row(4, PRO_LIMIT, "PRO", "active", TRUE)
  /\ users["u1"] = Row(5, PRO_LIMIT, "PRO", "past_due", TRUE)
  /\ \E c \in Consumers :
       /\ rpcRes[c].kind = "row" /\ ~rpcRes[c].allowed
       /\ rpcRes[c].effective_limit = 5

\* C39 (subscription deleted): a signed customer.subscription.deleted event
\* that carries a user id sets plan FREE, limit 5 and status canceled, leaves
\* the usage as it was, then invalidates the cache; without a user id nothing
\* changes; and a call of the RPC on a canceled FREE row whose usage is 5 or
\* more is denied.
C39_SubscriptionDeleted ==
  [][/\ \A r \in Reqs :
          /\ (Case(r, "customer.subscription.deleted") /\ ~Threw(r)) =>
               IF req[r].event.named
               THEN Updated(r, [users[req[r].account] EXCEPT
                                  !.plan = "FREE", !.plan_limits_scrapes = 5,
                                  !.subscription_status = "canceled"])
               ELSE Ignored(r)
          /\ (pc[r] = "webhook_invalidate" /\ pc'[r] # pc[r]
                /\ req[r].event.type = "customer.subscription.deleted")
               => Invalidated(r)
     /\ \A c \in Consumers :
          LET row == users[tx[c].id]
          IN (Checks(c) /\ row.subscription_status = "canceled"
                /\ row.plan = "FREE") =>
               (Denies(c) <=> row.usage_this_month >= 5)]_vars

\* The STARTER account at usage 6 was downgraded with its usage kept, and a
\* call was denied after it.
C39_Witness ==
  /\ users0["u1"] = Row(6, STARTER_LIMIT, "STARTER", "active", TRUE)
  /\ users["u1"] = Row(6, FREE_LIMIT, "FREE", "canceled", TRUE)
  /\ \E c \in Consumers :
       /\ rpcRes[c].kind = "row" /\ ~rpcRes[c].allowed
       /\ rpcRes[c].effective_limit = 5 /\ rpcRes[c].new_usage = 6

\* C40 (invoice paid): a signed invoice.paid event resets the usage to 0 and
\* sets the status to active exactly when it is a renewal
\* (subscription_cycle) whose subscription belongs to an account, and
\* changes nothing otherwise; and a webhook request with a valid signature
\* is answered 200 whatever its event and also when the handler threw, one
\* with an invalid signature 400.
C40_InvoicePaid ==
  [][\A r \in Reqs :
       /\ (Case(r, "invoice.paid") /\ ~Threw(r)) =>
            IF req[r].event.cycle /\ req[r].event.named
            THEN Updated(r, [users[req[r].account] EXCEPT
                               !.usage_this_month = 0,
                               !.subscription_status = "active",
                               !.billing_date = "now"])
            ELSE Ignored(r)
       /\ (Answers(r) /\ req[r].path = "webhook") =>
            /\ resp'[r].status = IF req[r].signed THEN 200 ELSE 400
            /\ Threw(r) => users' = users /\ cache' = cache]_vars

\* A renewal has reset the usage of the account, and after it an invoice.paid
\* whose handler threw was acknowledged with 200.
C40_Witness ==
  \E r \in Reqs :
    /\ pc[r] = "done" /\ resp[r].status = 200
    /\ req[r].path = "webhook" /\ req[r].event.type = "invoice.paid"
    /\ stageLog[r] = <<"handler_error">>
    /\ users0["u1"] = Row(6, STARTER_LIMIT, "STARTER", "active", TRUE)
    /\ users["u1"] = Row(0, STARTER_LIMIT, "STARTER", "active", TRUE)

====
